---- MODULE Spec2Model ----
(***************************************************************************)
(* Model of the samantha voice assistant: the control loop                 *)
(* (core/loop.py), the playback tasks it launches (audio/playback.py), the  *)
(* tools speak and stop (tools/samantha_tools.py) and the text matching     *)
(* helpers (utils/text.py, audio/processing.py).                            *)
(*                                                                          *)
(* Texts are sequences of one-character strings, so that lower-casing,      *)
(* substring tests, word splitting and the regular expressions of the       *)
(* source are computed as the source computes them.  Times are integers in  *)
(* milliseconds (time.time() is in seconds: 0.3 s is 300, 1800.0 s is       *)
(* 1800000).                                                                *)
(***************************************************************************)
EXTENDS Integers, Sequences, FiniteSets, TLC

\* ------------------------------------------------------------------------
\* Characters and strings
\* ------------------------------------------------------------------------

\* Atoms for the glyphs of the source that are not ASCII.
NOTE == "<note>"

MIC == "<mic>"

VS16 == "<vs16>"

DQUOTE == "<dquote>"

BSLASH == "<backslash>"

BACKTICK == "<backtick>"

lowerLetters ==
    <<"a","b","c","d","e","f","g","h","i","j","k","l","m",
      "n","o","p","q","r","s","t","u","v","w","x","y","z">>

upperLetters ==
    <<"A","B","C","D","E","F","G","H","I","J","K","L","M",
      "N","O","P","Q","R","S","T","U","V","W","X","Y","Z">>

digits == {"0","1","2","3","4","5","6","7","8","9"}

Range(s) == {s[i] : i \in 1..Len(s)}

lowerSet == Range(lowerLetters)

upperSet == Range(upperLetters)

\* str.lower() on one character.
LowerChar(c) ==
    IF c \in upperSet
    THEN lowerLetters[CHOOSE i \in 1..26 : upperLetters[i] = c]
    ELSE c

\* str.lower()
Lower(s) == [i \in 1..Len(s) |-> LowerChar(s[i])]

\* The word-character class of the re module (backslash-w).
IsWordChar(c) == c \in lowerSet \cup upperSet \cup digits \cup {"_"}

\* The whitespace class of the re module (backslash-s), also that of
\* str.split and str.strip.
TAB == "<tab>"

NEWLINE == "<newline>"

IsSpace(c) == c \in {" ", TAB, NEWLINE}

\* string.punctuation
punctuation ==
    {"!",DQUOTE,"#","$","%","&","'","(",")","*","+",",","-",".","/",":",";","<","=",">","?","@","[",BSLASH,"]","^","_",BACKTICK,"{","|","}","~"}

IsPunct(c) == c \in punctuation

\* The subsequence of s of the characters that satisfy keep.
Filter(s, keep(_)) == SelectSeq(s, keep)

RECURSIVE LStrip(_)
LStrip(s) ==
    IF s # <<>> /\ IsSpace(Head(s)) THEN LStrip(Tail(s)) ELSE s

RECURSIVE RStrip(_)
RStrip(s) ==
    IF s # <<>> /\ IsSpace(s[Len(s)]) THEN RStrip(SubSeq(s, 1, Len(s) - 1)) ELSE s

\* str.strip()
Strip(s) == LStrip(RStrip(s))

\* s[i:] and s[:i] of Python, with i a 0-based offset.
From(s, i) == SubSeq(s, i + 1, Len(s))

Upto(s, i) == SubSeq(s, 1, i)

\* Whether needle occurs in hay at 0-based offset i.
OccursAt(hay, needle, i) ==
    /\ i + Len(needle) <= Len(hay)
    /\ SubSeq(hay, i + 1, i + Len(needle)) = needle

\* needle in hay
Contains(hay, needle) == \E i \in 0..Len(hay) : OccursAt(hay, needle, i)

\* str.split() with no argument: the maximal runs of non-whitespace, in
\* order.  SkipSpace is the first position from i on that holds no
\* whitespace, WordEnd the last position of the run that position i is in.
RECURSIVE SkipSpace(_, _)
SkipSpace(s, i) ==
    IF i <= Len(s) /\ IsSpace(s[i]) THEN SkipSpace(s, i + 1) ELSE i

RECURSIVE WordEnd(_, _)
WordEnd(s, i) ==
    IF i >= Len(s) \/ IsSpace(s[i + 1]) THEN i ELSE WordEnd(s, i + 1)

RECURSIVE SplitFrom(_, _)
SplitFrom(s, i) ==
    LET start == SkipSpace(s, i)
    IN  IF start > Len(s) THEN <<>>
        ELSE <<SubSeq(s, start, WordEnd(s, start))>>
                \o SplitFrom(s, WordEnd(s, start) + 1)

Split(s) == SplitFrom(s, 1)

\* list.count(x)
Count(list, x) == Cardinality({i \in 1..Len(list) : list[i] = x})

\* re.sub of whitespace runs by one space.
RECURSIVE CollapseFrom(_, _)
CollapseFrom(s, i) ==
    IF i > Len(s) THEN <<>>
    ELSE IF IsSpace(s[i])
         THEN IF i > 1 /\ IsSpace(s[i - 1])
              THEN CollapseFrom(s, i + 1)
              ELSE <<" ">> \o CollapseFrom(s, i + 1)
         ELSE <<s[i]>> \o CollapseFrom(s, i + 1)

CollapseSpaces(s) == CollapseFrom(s, 1)

\* str.join of the words with one space
RECURSIVE Join(_)
Join(words) ==
    IF words = <<>> THEN <<>>
    ELSE IF Len(words) = 1 THEN words[1]
         ELSE words[1] \o <<" ">> \o Join(Tail(words))

\* ------------------------------------------------------------------------
\* Configuration (config/constants.py)
\* ------------------------------------------------------------------------

DEFAULT_WAKE_WORDS ==
    << <<"s","a","m","a","n","t","h","a">>,
       <<"h","e","y"," ","s","a","m","a","n","t","h","a">>,
       <<"h","i"," ","s","a","m","a","n","t","h","a">>,
       <<"h","e","l","l","o"," ","s","a","m","a","n","t","h","a">>,
       <<"o","k"," ","s","a","m","a","n","t","h","a">>,
       <<"o","k","a","y"," ","s","a","m","a","n","t","h","a">>,
       <<"s","a","m","a","n","t","a">>,
       <<"s","a","m","a","n","t","h","i","a">>,
       <<"s","a","m","a","n","s","a">>,
       <<"c","e","m","a","n","t","h","a">>,
       <<"s","o","m","a","n","t","h","a">>,
       <<"s","e","m","a","n","t","h","a">>,
       <<"h","e","y"," ","s","a","m">>,
       <<"h","i"," ","s","a","m">>,
       <<"h","e","l","l","o"," ","s","a","m">>,
       <<"o","k"," ","s","a","m">>,
       <<"o","k","a","y"," ","s","a","m">>,
       <<"a"," ","s","a","m","a","n","t","h","a">>,
       <<"t","h","e"," ","s","a","m","a","n","t","h","a">> >>

STOP_PHRASES ==
    << <<"s","t","o","p"," ","r","e","c","o","r","d","i","n","g">>,
       <<"e","n","d"," ","r","e","c","o","r","d","i","n","g">>,
       <<"f","i","n","i","s","h"," ","r","e","c","o","r","d","i","n","g">>,
       <<"t","h","a","t"," ","i","s"," ","a","l","l">>,
       <<"t","h","a","t","'","s"," ","a","l","l">>,
       <<"t","h","a","t","s"," ","a","l","l">>,
       <<"o","v","e","r"," ","a","n","d"," ","o","u","t">>,
       <<"o","v","e","r"," ","o","u","t">>,
       <<"s","e","n","d"," ","m","e","s","s","a","g","e">>,
       <<"s","e","n","d"," ","i","t">>,
       <<"s","a","m","a","n","t","h","a"," ","s","t","o","p">>,
       <<"s","a","m","a","n","t","h","a"," ","s","e","n","d">>,
       <<"s","a","m","a","n","t","h","a"," ","d","o","n","e">> >>

DEFAULT_DEACTIVATION_PHRASES ==
    << <<"s","a","m","a","n","t","h","a"," ","s","l","e","e","p">>,
       <<"s","a","m","a","n","t","h","a"," ","g","o","o","d","b","y","e">>,
       <<"g","o","o","d","b","y","e"," ","s","a","m","a","n","t","h","a">>,
       <<"b","y","e"," ","s","a","m","a","n","t","h","a">>,
       <<"s","a","m","a","n","t","h","a"," ","b","y","e">>,
       <<"t","h","a","t","'","s"," ","a","l","l"," ","s","a","m","a","n","t","h","a">>,
       <<"t","h","a","t","s"," ","a","l","l"," ","s","a","m","a","n","t","h","a">>,
       <<"t","h","a","t"," ","i","s"," ","a","l","l"," ","s","a","m","a","n","t","h","a">>,
       <<"s","a","m","a","n","t","h","a"," ","g","o"," ","t","o"," ","s","l","e","e","p">>,
       <<"g","o"," ","t","o"," ","s","l","e","e","p"," ","s","a","m","a","n","t","h","a">>,
       <<"s","a","m","a","n","t","h","a"," ","p","a","u","s","e">>,
       <<"p","a","u","s","e"," ","s","a","m","a","n","t","h","a">> >>

INTERRUPT_WORDS ==
    << <<"s","t","o","p">>,
       <<"q","u","i","e","t">>,
       <<"e","n","o","u","g","h">>,
       <<"h","a","l","t">> >>

SKIP_WORDS ==
    << <<"c","o","n","t","i","n","u","e">>,
       <<"s","k","i","p">> >>

VOICE_MESSAGE_PREFIX ==
    <<"[",MIC,VS16," ","V","o","i","c","e"," ","-"," ","s","a","m","a","n","t","h","a","_","s","p","e","a","k","]">>

\* get_wake_words() with no configured override.
get_wake_words == DEFAULT_WAKE_WORDS

\* get_deactivation_phrases() with no configured override.
get_deactivation_phrases == DEFAULT_DEACTIVATION_PHRASES

\* get_stop_phrases(): the stop phrases of the configuration.
get_stop_phrases == STOP_PHRASES

\* get_min_audio_energy() with no configured override.
DEFAULT_MIN_AUDIO_ENERGY == 1500

\* The spoken notice inject_into_app queues when no target is found.
APOLOGY ==
    <<"I"," ","c","o","u","l","d","n","'","t"," ","f","i","n","d"," ",
      "a","n"," ","A","I"," ","a","s","s","i","s","t","a","n","t"," ",
      "r","u","n","n","i","n","g"," ","i","n"," ","a","n","y"," ","I",
      "D","E"," ","o","r"," ","T","e","r","m","i","n","a","l","."," ",
      "P","l","e","a","s","e"," ","m","a","k","e"," ","s","u","r","e",
      " ","y","o","u","r"," ","A","I"," ","i","s"," ","o","p","e","n",
      ".">>

\* ------------------------------------------------------------------------
\* Text helpers (utils/text.py)
\* ------------------------------------------------------------------------

IsNotPunct(c) == ~IsPunct(c)

\* normalize_text: lower-case, delete string.punctuation, strip.
normalize_text(text) ==
    IF text = <<>> THEN <<>> ELSE Strip(Filter(Lower(text), IsNotPunct))

\* any(phrase in hay for phrase in phrases)
AnyContained(hay, phrases) ==
    \E k \in 1..Len(phrases) : Contains(hay, phrases[k])

\* check_for_wake_word(text) is not None
check_for_wake_word(text) ==
    /\ text # <<>>
    /\ AnyContained(normalize_text(text), get_wake_words)

\* check_for_deactivation
check_for_deactivation(text) ==
    /\ text # <<>>
    /\ AnyContained(normalize_text(text), get_deactivation_phrases)

\* The 0-based offset of the first index j >= i with s[j] = c and no newline
\* in between (the dot of the pattern does not match a newline), or -1.
RECURSIVE FindClose(_, _, _)
FindClose(s, i, c) ==
    IF i >= Len(s) THEN -1
    ELSE IF s[i + 1] = c THEN i
    ELSE IF s[i + 1] = NEWLINE THEN -1
    ELSE FindClose(s, i + 1, c)

\* WHISPER_SOUND_PATTERN.sub of the empty string: delete, left to right,
\* every shortest bracketed span, every shortest parenthesised span, and
\* every run of note glyphs.
RECURSIVE SubSoundFrom(_, _)
SubSoundFrom(s, i) ==
    IF i >= Len(s) THEN <<>>
    ELSE LET c == s[i + 1]
             close == IF c = "[" THEN FindClose(s, i + 1, "]")
                      ELSE IF c = "(" THEN FindClose(s, i + 1, ")")
                      ELSE -1
         IN  IF close >= 0 THEN SubSoundFrom(s, close + 1)
             ELSE IF c = NOTE THEN SubSoundFrom(s, i + 1)
             ELSE <<c>> \o SubSoundFrom(s, i + 1)

StripSoundTags(text) == SubSoundFrom(text, 0)

\* Whether the words, each followed by a separator run, match s at 0-based
\* offset i without regard to case: the 0-based end offset of the match, or
\* -1.  ls is s in lower case.  sep names the class of the separator
\* ("space": whitespace, "nonword": anything but a word character), minSep
\* the least length of a run (0 for a starred class, 1 for a plussed one).
\* The runs are greedy; every word of the configuration starts outside the
\* separator class, so a greedy run never has to give characters back.
IsSep(sep, c) == IF sep = "space" THEN IsSpace(c) ELSE ~IsWordChar(c)

RECURSIVE SkipSep(_, _, _)
SkipSep(s, i, sep) ==
    IF i < Len(s) /\ IsSep(sep, s[i + 1]) THEN SkipSep(s, i + 1, sep) ELSE i

RECURSIVE MatchWords(_, _, _, _, _)
MatchWords(ls, i, words, sep, minSep) ==
    LET w == words[1]
    IN  IF ~OccursAt(ls, w, i) THEN -1
        ELSE IF Len(words) = 1 THEN i + Len(w)
        ELSE LET j == SkipSep(ls, i + Len(w), sep)
             IN  IF j - (i + Len(w)) < minSep THEN -1
                 ELSE MatchWords(ls, j, Tail(words), sep, minSep)

\* re.search of one phrase in s, given in lower case as ls: the least
\* offset at which it matches, as <<start, end>>, or <<-1, -1>>.
RECURSIVE SearchWords(_, _, _, _, _)
SearchWords(ls, i, words, sep, minSep) ==
    IF i > Len(ls) THEN <<-1, -1>>
    ELSE IF MatchWords(ls, i, words, sep, minSep) >= 0
         THEN <<i, MatchWords(ls, i, words, sep, minSep)>>
         ELSE SearchWords(ls, i + 1, words, sep, minSep)

\* sorted(list, key=len, reverse=True): longest first, equal lengths in the
\* order of the list.
MaxLenOf(list) ==
    IF list = <<>> THEN 0
    ELSE CHOOSE n \in {Len(list[k]) : k \in 1..Len(list)} :
            \A k \in 1..Len(list) : Len(list[k]) <= n

OfLen(list, n) == SelectSeq(list, LAMBDA w : Len(w) = n)

RECURSIVE SortedFrom(_, _)
SortedFrom(list, n) ==
    IF n < 0 THEN <<>> ELSE OfLen(list, n) \o SortedFrom(list, n - 1)

\* The wake words tried in the order of the list.
SortedByLenDesc_AsListed(list) == list

SortedByLenDesc(list) == SortedFrom(list, MaxLenOf(list))

\* The words of each wake word, longest wake word first, and the words of
\* each stop phrase, in lower case, as the patterns of clean_command have
\* them under re.IGNORECASE.
WakeWordPatterns ==
    LET sorted == SortedByLenDesc(get_wake_words)
    IN  [k \in 1..Len(sorted) |-> Split(Lower(sorted[k]))]

StopPhrasePatterns ==
    [k \in 1..Len(get_stop_phrases) |-> Split(Lower(get_stop_phrases[k]))]

\* The first loop of clean_command: the offset to cut before, that of the
\* first match of the first wake word of patterns, longest first, that
\* matches anywhere; -1 when none matches.  ls is the text in lower case.
RECURSIVE WakeWordStart(_, _, _)
WakeWordStart(ls, k, patterns) ==
    IF k > Len(patterns) THEN -1
    ELSE LET found == SearchWords(ls, 0, patterns[k], "nonword", 0)[1]
         IN  IF found >= 0 THEN found ELSE WakeWordStart(ls, k + 1, patterns)

TrimToWakeWord(cleaned) ==
    LET start == WakeWordStart(Lower(cleaned), 1, WakeWordPatterns)
    IN  IF start >= 0 THEN Strip(From(cleaned, start)) ELSE cleaned

\* The end of the first alternative of the stop-phrase pattern (patterns)
\* that matches at offset i, or -1.
RECURSIVE MatchAnyPhrase(_, _, _, _)
MatchAnyPhrase(ls, i, k, patterns) ==
    IF k > Len(patterns) THEN -1
    ELSE LET end == MatchWords(ls, i, patterns[k], "space", 1)
         IN  IF end >= 0 THEN end ELSE MatchAnyPhrase(ls, i, k + 1, patterns)

\* re.search of the stop-phrase alternation: the end of the leftmost match,
\* or -1.
RECURSIVE SearchStopPhrase(_, _, _)
SearchStopPhrase(ls, i, patterns) ==
    IF i > Len(ls) THEN -1
    ELSE LET end == MatchAnyPhrase(ls, i, 1, patterns)
         IN  IF end >= 0 THEN end ELSE SearchStopPhrase(ls, i + 1, patterns)

\* clean_command
clean_command(text) ==
    LET cleaned0 == Strip(StripSoundTags(text))
        cleaned1 == TrimToWakeWord(cleaned0)
        e == SearchStopPhrase(Lower(cleaned1), 0, StopPhrasePatterns)
        cleaned2 == IF e >= 0 THEN Upto(cleaned1, e) ELSE cleaned1
    IN  Strip(CollapseSpaces(cleaned2))

prefixes ==
    << <<"h","e","y">>,
       <<"h","i">>,
       <<"h","e","l","l","o">>,
       <<"o","k">>,
       <<"o","k","a","y">>,
       <<"a">>,
       <<"t","h","e">>,
       <<"y","o">> >>

\* The trigger words of contains_trigger_word: the words of the wake words
\* that are no prefix and have at least 3 characters.
trigger_words ==
    {w \in UNION {Range(Split(get_wake_words[k])) : k \in 1..Len(get_wake_words)} :
        w \notin Range(prefixes) /\ Len(w) >= 3}

\* A match of the word between two word boundaries at offset i.
WholeWordAt(s, w, i) ==
    /\ OccursAt(s, w, i)
    /\ (i = 0 \/ ~IsWordChar(s[i]))
    /\ (i + Len(w) = Len(s) \/ ~IsWordChar(s[i + Len(w) + 1]))

\* contains_trigger_word
contains_trigger_word(text) ==
    /\ text # <<>>
    /\ \E w \in trigger_words :
          \E i \in 0..Len(text) : WholeWordAt(Lower(text), w, i)

IsSanitizeKept(c) == IsWordChar(c) \/ IsSpace(c) \/ c = "'"

\* sanitize_whisper_text
sanitize_whisper_text(text) ==
    IF text = <<>> THEN <<>>
    ELSE Lower(Strip(CollapseSpaces(Filter(StripSoundTags(text), IsSanitizeKept))))

noise_phrases ==
    << <<"t","h","a","n","k"," ","y","o","u"," ","f","o","r"," ","w","a","t","c","h","i","n","g">>,
       <<"l","o","o","k"," ","a","t"," ","t","h","e"," ","n","e","x","t"," ","v","i","d","e","o">> >>

noise_words ==
    << <<"c","l","i","c","k">>,
       <<"c","l","a","p">>,
       <<"d","i","n","g">>,
       <<"b","e","l","l">>,
       <<"t","i","c","k">>,
       <<"t","h","u","d">>,
       <<"b","a","n","g">>,
       <<"e","n","g","i","n","e">>,
       <<"r","e","v","v","i","n","g">>,
       <<"k","e","y","b","o","a","r","d">>,
       <<"t","y","p","i","n","g">>,
       <<"n","o","i","s","e">>,
       <<"s","i","l","e","n","c","e">>,
       <<"s","t","a","t","i","c">>,
       <<"h","u","m">>,
       <<"b","u","z","z">>,
       <<"m","u","s","i","c">> >>

\* is_noise
is_noise(text) ==
    IF text = <<>> THEN TRUE
    ELSE LET sanitized == sanitize_whisper_text(text)
             all_keywords == get_wake_words \o get_stop_phrases
                             \o get_deactivation_phrases \o INTERRUPT_WORDS \o SKIP_WORDS
         IN  IF Len(sanitized) < 3 THEN TRUE
             ELSE IF AnyContained(sanitized, all_keywords) THEN FALSE
             ELSE IF AnyContained(sanitized, noise_phrases) THEN TRUE
             ELSE sanitized \in Range(noise_words)

\* ------------------------------------------------------------------------
\* Echo and interrupt matching (audio/processing.py).  The globals the
\* source reads (playback._last_tts_text, playback._last_tts_time and the
\* clock) are parameters here.
\* ------------------------------------------------------------------------

ECHO_WINDOW == 10000

\* is_echo lines 21-34: one text is part of the other, or the transcription
\* has more than 3 distinct words and over half of them are in the spoken
\* text.
Resembles(text, last_tts_text) ==
    LET text_lower == Strip(Lower(text))
        tts_lower == Strip(Lower(last_tts_text))
        text_words == Range(Split(text_lower))
        tts_words == Range(Split(tts_lower))
    IN  \/ Contains(tts_lower, text_lower)
        \/ Contains(text_lower, tts_lower)
        \/ /\ Cardinality(text_words) > 3
           /\ 2 * Cardinality(text_words \cap tts_words) > Cardinality(text_words)

\* A test for echo that does not look at the clock.
is_echo_AnyAge(text, last_tts_text, last_tts_time, clock) ==
    last_tts_text # <<>> /\ text # <<>> /\ Resembles(text, last_tts_text)

\* is_echo
is_echo(text, last_tts_text, last_tts_time, clock) ==
    IF last_tts_text = <<>> \/ text = <<>> THEN FALSE
    ELSE IF clock - last_tts_time > ECHO_WINDOW THEN FALSE
    ELSE Resembles(text, last_tts_text)

\* get_active_interrupt_words
get_active_interrupt_words(last_tts_text) ==
    SelectSeq(INTERRUPT_WORDS, LAMBDA word : ~Contains(Lower(last_tts_text), word))

\* is_skip_allowed
is_skip_allowed(last_tts_text) ==
    IF last_tts_text = <<>> THEN TRUE
    ELSE ~AnyContained(Lower(last_tts_text), SKIP_WORDS)

\* A search that knows no override: only the active words count.
contains_interrupt_phrase_ActiveOnly(text, last_tts_text) ==
    /\ text # <<>>
    /\ \E word \in Range(get_active_interrupt_words(last_tts_text)) :
          word \in Range(Split(text))

\* contains_interrupt_phrase
contains_interrupt_phrase(text, last_tts_text) ==
    IF text = <<>> THEN FALSE
    ELSE LET words == Split(text)
         IN  \/ \E k \in 1..Len(INTERRUPT_WORDS) : Count(words, INTERRUPT_WORDS[k]) >= 2
             \/ \E word \in Range(get_active_interrupt_words(last_tts_text)) :
                   word \in Range(words)

\* contains_skip_phrase
contains_skip_phrase(text, last_tts_text) ==
    IF text = <<>> THEN FALSE
    ELSE IF ~is_skip_allowed(last_tts_text) THEN FALSE
    ELSE \E k \in 1..Len(SKIP_WORDS) : SKIP_WORDS[k] \in Range(Split(text))


\* ------------------------------------------------------------------------
\* Bounds of the model
\* ------------------------------------------------------------------------

\* The number of clock advances of a run.
MaxTicks == 2

\* The number of frames the accumulator and the frame queue hold together.
MaxChunks == 37

\* The number of frames waiting in the frame queue.
MaxQueue == 1

\* The number of frames of one recording that are not silence.
MaxBurst == 2

\* The number of injections that fail in a run.
MaxApology == 1

\* ------------------------------------------------------------------------
\* Constants of the control loop (core/loop.py) and of the clock
\* ------------------------------------------------------------------------

VAD_CHUNK_DURATION_MS == 30

SILENCE_THRESHOLD_MS == 1000

\* 0.3 s
MIN_RECORDING_DURATION == 300

\* 1.0 s
INITIAL_SILENCE_GRACE_PERIOD == 1000

MAX_INACTIVE_AUDIO_MS == 15000

\* 1800.0 s
silence_timeout == 1800000

\* accumulated_duration_ms >= 300
TTS_CHECK_MIN_MS == 300

\* tts_elapsed >= 2.0
TTS_GRACE == 2000

\* time.time() when the loop starts, in milliseconds since the epoch: more
\* than the 10 s of the echo window.
StartTime == 100000

\* ------------------------------------------------------------------------
\* State
\* ------------------------------------------------------------------------

VARIABLES
    now,                 \* time.time(), in milliseconds
    ticks,               \* clock advances so far (bounds the run)
    \* samantha_loop_thread: its position and its locals
    pc,
    is_active,
    last_speech_time,
    audio_chunks,
    silence_duration_ms,
    speech_detected,
    recording_start,
    is_skip_only,
    audio_queue,
    \* samantha.audio.playback globals
    tts_text_queue,
    last_tts_text,
    last_tts_time,
    tts_playing,
    tts_start_time,
    tts_interrupt,
    \* samantha.core.state globals and the input stream
    thread_stop_flag,
    audio_stream,
    stream_open,
    thread_ready,        \* state._thread_ready: "none", "clear" or "set"
    \* the active marker file: "absent", "own" (this process's pid), "live"
    \* (another live process), "foreign" (a live process this one may not
    \* signal) or "stale" (a dead process, or no pid)
    active_file,
    \* the playback tasks (tts_thread_func threads and direct speak calls)
    tasks,
    \* the thread of the tool calls (start, speak, stop): its position, the
    \* entry a speak call appends, the await a start call is suspended at,
    \* and what the last call returned
    tool,
    pending,
    start,
    result,
    \* the texts the assistant speaks in this run, in order
    script,
    \* history: entries appended so far, entries launched (in order), the
    \* entries an interrupt of the loop removed from the queue, and what the
    \* current loop iteration has done
    appended,
    failed,
    launched,
    dropped,
    iter,
    \* history of the last stop call: the ids pending in the queue and the
    \* playbacks in progress when it was made, the queue when it returned
    at_stop,
    \* a second start call, made while the first one is suspended: the await
    \* it is suspended at
    start2,
    \* the loop threads alive that state._samantha_thread no longer refers
    \* to, because a later start call replaced the reference
    unreferenced

vars ==
    << now, ticks, pc, is_active, last_speech_time, audio_chunks,
       silence_duration_ms, speech_detected, recording_start, is_skip_only,
       audio_queue, tts_text_queue, last_tts_text, last_tts_time, tts_playing,
       tts_start_time, tts_interrupt, thread_stop_flag, audio_stream,
       stream_open, thread_ready, active_file, tasks, tool, pending, start,
       result, script, appended, failed, launched, dropped, iter, at_stop,
       start2, unreferenced >>

clockVars == << now, ticks >>

callVars == << start2, unreferenced >>

startVars == << thread_ready, active_file, start, result >>

accVars == << audio_chunks, silence_duration_ms, speech_detected, recording_start >>

sessionVars == << is_active, last_speech_time >>

playbackVars ==
    << tts_text_queue, last_tts_text, last_tts_time, tts_playing,
       tts_start_time, tts_interrupt >>

stateVars == << thread_stop_flag, audio_stream, stream_open >>

historyVars == << appended, failed, launched, dropped >>

toolVars == << tool, pending, script >>

\* What one loop iteration has done so far: the chimes played, the texts
\* forwarded to inject_into_app, the transcription of the utterance (text),
\* the transcription acted upon (heard), and the steps of the iteration
\* that ran.
NoIter ==
    [sounds |-> <<>>, injected |-> <<>>, text |-> <<>>, heard |-> <<>>, did |-> {}]

\* No stop call yet.
NoStop == [ids |-> {}, playing |-> {}, left |-> <<>>]

\* A frame of the input stream: the decision the detector takes on it
\* ("speech", "quiet", "bad" when the detector raises, or "none" when there
\* is no detector: VAD_AVAILABLE is false and loop.py lines 91-92 leave vad
\* and vad_tts None) and its sample of largest magnitude (the other samples
\* are 0); at is history, the time the stream delivered the frame.
Frame(v, a) == [vad |-> v, amp |-> a, at |-> 0]

\* An entry of the pending-speech queue; id numbers the appends of the run.
Entry(k, t) == [id |-> k, text |-> t]

\* The state when the loop has opened its stream, in a run where the
\* assistant speaks the texts of one of Scripts.
InitWith(Scripts) ==
    /\ script \in Scripts
    /\ now = StartTime
    /\ ticks = 0
    /\ pc = "head"
    /\ is_active = FALSE
    /\ last_speech_time = 0
    /\ audio_chunks = <<>>
    /\ silence_duration_ms = 0
    /\ speech_detected = FALSE
    /\ recording_start = 0
    /\ is_skip_only = FALSE
    /\ audio_queue = <<>>
    /\ tts_text_queue = <<>>
    /\ last_tts_text = <<>>
    /\ last_tts_time = 0
    /\ tts_playing = FALSE
    /\ tts_start_time = 0
    /\ tts_interrupt = FALSE
    /\ thread_stop_flag = FALSE
    /\ audio_stream = TRUE
    /\ stream_open = TRUE
    /\ tasks = <<>>
    /\ thread_ready = "set"
    /\ active_file = "own"
    /\ tool = "idle"
    /\ pending = Entry(0, <<>>)
    /\ start = "none"
    /\ result = "started"
    /\ appended = 0
    /\ failed = 0
    /\ launched = <<>>
    /\ dropped = {}
    /\ iter = NoIter
    /\ at_stop = NoStop
    /\ start2 = "none"
    /\ unreferenced = 0

\* The state before any start call, with a marker file as an earlier run
\* or another process left it (one of Markers).
InitIdle(Scripts, Markers) ==
    /\ script \in Scripts
    /\ now = StartTime
    /\ ticks = 0
    /\ pc = "none"
    /\ is_active = FALSE
    /\ last_speech_time = 0
    /\ audio_chunks = <<>>
    /\ silence_duration_ms = 0
    /\ speech_detected = FALSE
    /\ recording_start = 0
    /\ is_skip_only = FALSE
    /\ audio_queue = <<>>
    /\ tts_text_queue = <<>>
    /\ last_tts_text = <<>>
    /\ last_tts_time = 0
    /\ tts_playing = FALSE
    /\ tts_start_time = 0
    /\ tts_interrupt = FALSE
    /\ thread_stop_flag = FALSE
    /\ audio_stream = FALSE
    /\ stream_open = FALSE
    /\ tasks = <<>>
    /\ thread_ready = "none"
    /\ active_file \in Markers
    /\ tool = "idle"
    /\ pending = Entry(0, <<>>)
    /\ start = "none"
    /\ result = "none"
    /\ appended = 0
    /\ failed = 0
    /\ launched = <<>>
    /\ dropped = {}
    /\ iter = NoIter
    /\ at_stop = NoStop
    /\ start2 = "none"
    /\ unreferenced = 0

\* ------------------------------------------------------------------------
\* Environment: the clock and the audio callback
\* ------------------------------------------------------------------------

\* d milliseconds pass.
Tick(d) ==
    /\ ticks < MaxTicks
    /\ now' = now + d
    /\ ticks' = ticks + 1
    /\ UNCHANGED << callVars, startVars, at_stop, pc, sessionVars, accVars, is_skip_only,
                    audio_queue, playbackVars, stateVars, tasks, toolVars,
                    historyVars, iter >>

\* audio_callback: the stream delivers frame f, while the accumulator and
\* the frame queue hold less than frames frames.
AudioCallbackWithin(f, frames) ==
    /\ stream_open
    /\ Len(audio_queue) < MaxQueue
    /\ Len(audio_chunks) + Len(audio_queue) < frames
    /\ audio_queue' = Append(audio_queue, [f EXCEPT !.at = now])
    /\ UNCHANGED << clockVars, callVars, at_stop, startVars, pc, sessionVars, accVars,
                    is_skip_only, playbackVars, stateVars, tasks, toolVars,
                    historyVars, iter >>

\* audio_callback in the runs with short recordings.
AudioCallback(f) == AudioCallbackWithin(f, MaxChunks)

\* ------------------------------------------------------------------------
\* Transcription (speech/stt.py)
\* ------------------------------------------------------------------------

INT16_MIN == -32768

\* np.abs on an int16 sample: the magnitude, which wraps for -32768.
Abs16(x) == IF x = INT16_MIN THEN INT16_MIN ELSE IF x < 0 THEN -x ELSE x

SetMax(S) == CHOOSE m \in S : \A x \in S : x <= m

\* np.max(np.abs(audio_data)) of the concatenated frames.
max_energy(chunks) ==
    SetMax({0} \cup {Abs16(chunks[i].amp) : i \in 1..Len(chunks)})

\* A transcription without the energy gate.
CallsWhisper_Always(chunks) == TRUE

\* transcribe_audio_sync lines 42-47: the request is posted to the service
\* unless the energy is below the threshold.
CallsWhisper(chunks) == ~(max_energy(chunks) < DEFAULT_MIN_AUDIO_ENERGY)

\* transcribe_audio_sync: no text below the energy threshold, otherwise the
\* stripped text of the service's answer r (no text when the service fails).
transcribe_audio_sync(chunks, r) ==
    IF ~CallsWhisper(chunks) THEN <<>> ELSE Strip(r)

\* ------------------------------------------------------------------------
\* The control loop (core/loop.py, samantha_loop_thread)
\* ------------------------------------------------------------------------

\* A TTS detector that fails open, as the listening detector does.
VadTts_FailOpen(f) == f.vad \in {"speech", "bad"}

\* Lines 144-152: vad_tts.is_speech, an exception of the detector counting
\* as no speech, and so does a detector that is missing.
VadTts(f) == f.vad = "speech"

\* A listening branch that takes for speech what a detector found to be.
VadListening_Detects(f) == f.vad = "speech"

\* Lines 227-237: vad.is_speech, an exception of the detector counting as
\* speech, and so does a detector that is missing.
VadListening(f) == f.vad \in {"speech", "bad", "none"}

\* A new playback task for entry e, before its first statement.  kind is
\* "thread" for tts_thread_func and "direct" for a speak call that plays
\* itself, and ok is what speak_tts_sync will return.  The rest is history:
\* the time of the launch (started), the time speak_tts_sync returned
\* (ended), whether cancellation of this playback was requested (cancel),
\* and whether the task went on playing after that (missed).
NewTask(e, kind) ==
    [id |-> e.id, text |-> e.text, kind |-> kind, pc |-> "start", ok |-> TRUE,
     started |-> now, ended |-> 0, cancel |-> FALSE, missed |-> FALSE]

\* Lines 90-100 and 302-305: the thread opens the input stream, publishes
\* it and signals readiness; when the detector or the stream cannot be
\* opened (opened is false) the handler of line 302 ends the thread.
LoopOpen(opened) ==
    /\ pc = "open"
    /\ IF opened
       THEN /\ audio_stream' = TRUE
            /\ stream_open' = TRUE
            /\ thread_ready' = IF thread_ready = "none" THEN "none" ELSE "set"
            /\ pc' = "head"
       ELSE /\ audio_stream' = FALSE
            /\ stream_open' = FALSE
            /\ pc' = "aborted"
            /\ UNCHANGED thread_ready
    /\ UNCHANGED << clockVars, callVars, at_stop, active_file, start, result, sessionVars, accVars,
                    is_skip_only, audio_queue, playbackVars, thread_stop_flag,
                    tasks, tool, pending, script, historyVars, iter >>

\* A loop that never looks at the stop flag.
StopRequested_Never == FALSE

\* Line 102: what the while test reads, state._thread_stop_flag.
StopRequested == thread_stop_flag

\* Lines 102-103: the test of the stop flag at the top of an iteration; a
\* set flag ends the loop, and line 307 drops the stream reference.
LoopHead ==
    /\ pc = "head"
    /\ iter' = NoIter
    /\ IF StopRequested
       THEN /\ pc' = "exited"
            /\ audio_stream' = FALSE
            /\ stream_open' = FALSE
       ELSE /\ pc' = "dequeue"
            /\ UNCHANGED << audio_stream, stream_open >>
    /\ UNCHANGED << clockVars, callVars, at_stop, startVars, sessionVars, accVars,
                    is_skip_only, audio_queue, playbackVars, thread_stop_flag,
                    tasks, toolVars, historyVars >>

\* list.pop(): the text appended last.
Pop_Last(queue) ==
    [item |-> queue[Len(queue)], rest |-> SubSeq(queue, 1, Len(queue) - 1)]

\* Line 108, _tts_text_queue.pop(0): the text at the head, and the queue
\* without it.
Pop0(queue) == [item |-> Head(queue), rest |-> Tail(queue)]

\* A test that every text passes.
Truthy_Always(text) == TRUE

\* Line 110, "if tts_text:": a text that is not empty.
Truthy(text) == text # <<>>

\* Lines 104-137: when nothing is playing and a text is pending, the loop
\* takes the text at the head of the queue under the lock, and a text that
\* is not empty is launched: the playback flags are set, the stream's
\* queue and the recording are cleared, and the playback thread started.
LoopDequeue ==
    /\ pc = "dequeue"
    /\ pc' = "branch"
    /\ IF ~tts_playing /\ tts_text_queue # <<>>
       THEN LET e == Pop0(tts_text_queue).item
            IN  /\ tts_text_queue' = Pop0(tts_text_queue).rest
                /\ IF Truthy(e.text)
                   THEN /\ tts_playing' = TRUE
                        /\ tts_start_time' = now
                        /\ audio_queue' = <<>>
                        /\ speech_detected' = FALSE
                        /\ audio_chunks' = <<>>
                        /\ silence_duration_ms' = 0
                        /\ recording_start' = 0
                        /\ tasks' = Append(tasks, NewTask(e, "thread"))
                        /\ launched' = Append(launched, e.id)
                        /\ iter' = [iter EXCEPT !.did = @ \cup {"launch"}]
                   ELSE UNCHANGED << tts_playing, tts_start_time, audio_queue,
                                     accVars, tasks, launched, iter >>
       ELSE UNCHANGED << tts_text_queue, tts_playing, tts_start_time,
                         audio_queue, accVars, tasks, launched, iter >>
    /\ UNCHANGED << clockVars, callVars, at_stop, startVars, sessionVars, is_skip_only,
                    last_tts_text, last_tts_time, tts_interrupt, stateVars,
                    toolVars, appended, failed, dropped >>

\* A slice that keeps the list whole.
LastN_Whole(list, n) == list

\* list[-n:]
LastN(list, n) ==
    IF Len(list) > n THEN SubSeq(list, Len(list) - n + 1, Len(list)) ELSE list

\* A TTS branch that falls through to the steps below it.
AfterTts_FallsThrough == "branch"

\* Line 193, continue: where the loop goes at the end of the TTS branch,
\* to the next iteration.
AfterTts == "head"

\* Lines 139-193, up to the transcription: the iteration of the TTS branch.
\* A frame the TTS detector takes for speech joins the interrupt-check
\* buffer; the buffer goes to transcription once it holds 300 ms and the
\* playback started 2.0 s ago.
TtsFrame ==
    IF audio_queue = <<>>
    THEN /\ pc' = AfterTts
         /\ UNCHANGED << audio_queue, audio_chunks >>
    ELSE LET chunk == Head(audio_queue)
             chunks == IF VadTts(chunk) THEN Append(audio_chunks, chunk)
                       ELSE audio_chunks
             accumulated_duration_ms == Len(chunks) * VAD_CHUNK_DURATION_MS
             tts_elapsed == IF tts_start_time > 0 THEN now - tts_start_time ELSE 0
         IN  /\ audio_queue' = Tail(audio_queue)
             /\ audio_chunks' = chunks
             /\ pc' = IF accumulated_duration_ms >= TTS_CHECK_MIN_MS
                         /\ tts_elapsed >= TTS_GRACE
                      THEN "tts_check" ELSE AfterTts

\* Lines 195-205: post-TTS cleanup.
PostTtsCleanup ==
    /\ audio_queue' = <<>>
    /\ speech_detected' = FALSE
    /\ audio_chunks' = <<>>
    /\ silence_duration_ms' = 0
    /\ recording_start' = 0
    /\ last_tts_time' = 0
    /\ last_speech_time' = IF is_active THEN now ELSE last_speech_time
    /\ pc' = "head"
    /\ iter' = [iter EXCEPT !.did = @ \cup {"cleanup"}]
    /\ UNCHANGED is_active

\* A timeout that fires whenever the session is active.
TimedOut_AnyTime == is_active

\* Lines 207-212: whether the silence timeout fires.
TimedOut == is_active /\ now - last_speech_time > silence_timeout

\* The test with the silence alone.
UtteranceComplete_SilenceOnly(silence, recording_duration) ==
    silence >= SILENCE_THRESHOLD_MS

\* The test without the grace period.
UtteranceComplete_NoGrace(silence, recording_duration) ==
    /\ recording_duration >= MIN_RECORDING_DURATION
    /\ silence >= SILENCE_THRESHOLD_MS

\* Lines 252-254: the end-of-utterance test, on the silence counted and the
\* time since recording start.
UtteranceComplete(silence, recording_duration) ==
    /\ recording_duration >= MIN_RECORDING_DURATION
    /\ silence >= SILENCE_THRESHOLD_MS
    /\ recording_duration >= INITIAL_SILENCE_GRACE_PERIOD

\* Lines 214-255: the listening iteration after the timeout check, with
\* active the session state the check left.
ListenFrame(active) ==
    IF audio_queue = <<>>
    THEN /\ pc' = "head"
         /\ UNCHANGED << audio_queue, accVars >>
    ELSE LET chunk == Head(audio_queue)
             appendedChunks == Append(audio_chunks, chunk)
             max_chunks == MAX_INACTIVE_AUDIO_MS \div VAD_CHUNK_DURATION_MS
             chunks == IF ~active THEN LastN(appendedChunks, max_chunks)
                       ELSE appendedChunks
             is_speech == VadListening(chunk)
             silence == silence_duration_ms + VAD_CHUNK_DURATION_MS
             recording_duration == now - recording_start
         IN  /\ audio_queue' = Tail(audio_queue)
             /\ IF ~speech_detected
                THEN IF is_speech
                     THEN /\ speech_detected' = TRUE
                          /\ recording_start' = now
                          /\ silence_duration_ms' = 0
                          /\ audio_chunks' = <<chunk>>
                          /\ pc' = "head"
                     ELSE /\ audio_chunks' = chunks
                          /\ pc' = "head"
                          /\ UNCHANGED << speech_detected, recording_start,
                                          silence_duration_ms >>
                ELSE /\ audio_chunks' = chunks
                     /\ UNCHANGED << speech_detected, recording_start >>
                     /\ IF is_speech
                        THEN /\ silence_duration_ms' = 0
                             /\ pc' = "head"
                        ELSE /\ silence_duration_ms' = silence
                             /\ pc' = IF UtteranceComplete(silence, recording_duration)
                                      THEN "utterance" ELSE "head"

\* The handler re-raises: the exception ends the thread.
AfterException_Dies == "exited"

\* Lines 298-300: where the loop goes after the handler of an iteration's
\* exception, to the next iteration.
AfterException == "head"

\* Line 139 and what follows it up to the next blocking call: the TTS
\* branch when the playing flag is set, otherwise post-TTS cleanup or the
\* timeout check and one listening step.  The calls end in one of Outcomes:
\* "ok", or "sound_raises" when play_sound raises on the timeout chime and
\* the handler of line 298 ends the iteration.
LoopBranch(Outcomes) ==
    /\ pc = "branch"
    /\ \E outcome \in Outcomes \cap {"ok", "sound_raises"} :
       IF tts_playing
       THEN /\ outcome = "ok"
            /\ TtsFrame
            /\ iter' = [iter EXCEPT !.did = @ \cup {"tts"}]
            /\ UNCHANGED << sessionVars, silence_duration_ms, speech_detected,
                            recording_start, last_tts_time >>
       ELSE IF last_tts_time > 0
            THEN outcome = "ok" /\ PostTtsCleanup
            ELSE IF outcome = "ok"
                 THEN /\ is_active' = (is_active /\ ~TimedOut)
                      /\ iter' = [iter EXCEPT
                             !.did = @ \cup {"timeout_check"}
                                       \cup (IF audio_queue # <<>> THEN {"listen"} ELSE {}),
                             !.sounds = IF TimedOut THEN Append(@, "timeout") ELSE @]
                      /\ ListenFrame(is_active /\ ~TimedOut)
                      /\ UNCHANGED << last_speech_time, last_tts_time >>
                 ELSE /\ TimedOut
                      /\ is_active' = FALSE
                      /\ iter' = [iter EXCEPT !.did = @ \cup {"timeout_check", "exception"}]
                      /\ pc' = AfterException
                      /\ UNCHANGED << last_speech_time, last_tts_time, audio_queue,
                                      accVars >>
    /\ UNCHANGED << clockVars, callVars, at_stop, startVars, is_skip_only, tts_text_queue, last_tts_text,
                    tts_playing, tts_start_time, tts_interrupt, stateVars,
                    tasks, toolVars, historyVars >>

BLANK_AUDIO == <<"[","B","L","A","N","K","_","A","U","D","I","O","]">>

\* A loop that acts upon every text that is not empty.
Accepted_Unfiltered(text) == text # <<>>

\* Line 267: the transcription is acted upon.
Accepted(text) ==
    /\ text # <<>>
    /\ text # BLANK_AUDIO
    /\ ~is_echo(text, last_tts_text, last_tts_time, now)
    /\ ~is_noise(text)

\* f"{VOICE_MESSAGE_PREFIX} {cleaned}"
VoiceMessage(cleaned) == VOICE_MESSAGE_PREFIX \o <<" ">> \o cleaned

\* What the dispatch of lines 270-292 does with an accepted text:
\* the session state, whether the activity timer is refreshed, the chime,
\* and the text forwarded to inject_into_app (empty: none).
Dispatch(text) ==
    IF is_active
    THEN IF check_for_deactivation(text)
         THEN [accepted |-> TRUE, active |-> FALSE, refresh |-> FALSE,
               sound |-> <<"deactivate">>, forward |-> <<>>]
         ELSE [accepted |-> TRUE, active |-> TRUE, refresh |-> TRUE,
               sound |-> <<>>, forward |-> clean_command(text)]
    ELSE IF contains_trigger_word(text)
         THEN [accepted |-> TRUE, active |-> TRUE, refresh |-> TRUE,
               sound |-> <<"activate">>, forward |-> clean_command(text)]
         ELSE [accepted |-> TRUE, active |-> FALSE, refresh |-> FALSE,
               sound |-> <<>>, forward |-> <<>>]

\* A loop that takes every transcription for activity.
Discard_Refreshes ==
    [accepted |-> FALSE, active |-> is_active, refresh |-> TRUE,
     sound |-> <<>>, forward |-> <<>>]

\* What is done with a text that is not acted upon.
Discard ==
    [accepted |-> FALSE, active |-> is_active, refresh |-> FALSE,
     sound |-> <<>>, forward |-> <<>>]

\* An inject_into_app that queues nothing when it finds no target.
QueueAfterInject_Silent(queue, success, id) == queue

\* inject_into_app lines 339-345: the pending-speech queue when the call
\* returns; a call that found no target has appended its spoken notice.
QueueAfterInject(queue, success, id) ==
    IF success THEN queue ELSE Append(queue, Entry(id, APOLOGY))

\* Lines 257-296: the completed utterance is transcribed (the service
\* answers r) and acted upon.  The calls the handling makes end in one of
\* Outcomes: "ok" when they all succeed, "no_target" when inject_into_app
\* finds no target and queues its spoken notice, "sound_raises" when
\* play_sound raises and "inject_raises" when inject_into_app does; after
\* an exception the handler of line 298 ends the iteration, and the
\* statements after the call, the reset of lines 294-296 included, do not
\* run.
LoopUtterance(r, Outcomes) ==
    /\ pc = "utterance"
    /\ \E text \in {IF ~tts_playing /\ audio_chunks # <<>>
                    THEN transcribe_audio_sync(audio_chunks, r) ELSE <<>>} :
       \E d \in {IF Accepted(text) THEN Dispatch(text) ELSE Discard} :
       \E outcome \in Outcomes :
         LET raised == outcome \in {"sound_raises", "inject_raises"}
             sounded == outcome # "sound_raises"
             injects == d.forward # <<>> /\ sounded
             injected == injects /\ outcome # "inject_raises"
         IN  /\ \/ outcome = "ok"
                \/ outcome = "no_target" /\ injects /\ failed < MaxApology
                \/ outcome = "sound_raises" /\ d.sound # <<>>
                \/ outcome = "inject_raises" /\ injects
             /\ is_active' = d.active
             /\ last_speech_time' = IF d.refresh THEN now ELSE last_speech_time
             /\ iter' = [iter EXCEPT
                    !.did = @ \cup (IF ~tts_playing /\ audio_chunks # <<>>
                                    THEN {"transcribe"} ELSE {})
                              \cup (IF /\ ~tts_playing /\ audio_chunks # <<>>
                                       /\ CallsWhisper(audio_chunks)
                                    THEN {"whisper"} ELSE {})
                              \cup (IF raised THEN {"exception"} ELSE {})
                              \cup (IF d.refresh THEN {"refresh"} ELSE {})
                              \cup (IF d.active # is_active THEN {"transition"} ELSE {}),
                    !.text = text,
                    !.heard = IF d.accepted THEN text ELSE <<>>,
                    !.sounds = IF sounded THEN @ \o d.sound ELSE @,
                    !.injected = IF injected THEN Append(@, VoiceMessage(d.forward))
                                 ELSE @]
             /\ tts_text_queue' = IF injected
                                  THEN QueueAfterInject(tts_text_queue,
                                           outcome # "no_target", appended + 1)
                                  ELSE tts_text_queue
             /\ IF outcome = "no_target"
                THEN /\ appended' = appended + 1
                     /\ failed' = failed + 1
                ELSE UNCHANGED << appended, failed >>
             /\ IF raised
                THEN /\ pc' = AfterException
                     /\ UNCHANGED << speech_detected, audio_chunks, silence_duration_ms >>
                ELSE /\ pc' = "head"
                     /\ speech_detected' = FALSE
                     /\ audio_chunks' = <<>>
                     /\ silence_duration_ms' = 0
    /\ UNCHANGED << clockVars, callVars, at_stop, startVars, recording_start, is_skip_only, audio_queue,
                    last_tts_text, last_tts_time, tts_playing, tts_start_time,
                    tts_interrupt, stateVars, tasks, toolVars, launched, dropped >>

\* The index of the playback the loop launched last (0: none yet).
Current == Len(tasks)

\* A skip as soon as a skip word was heard, interrupt or not.
SkipOnly_AnySkip(is_interrupt, is_skip) == is_skip

\* Line 168: is_skip_only, a skip word heard and no interrupt.
SkipOnly(is_interrupt, is_skip) == is_skip /\ ~is_interrupt

\* Lines 160-179: the interrupt-check buffer is transcribed (the service
\* answers r); an interrupt clears the pending-speech queue, and an
\* interrupt or a skip sets the cancellation flag and clears the playing
\* flag.
LoopTtsCheck(r) ==
    /\ pc = "tts_check"
    /\ \E raw_text \in {transcribe_audio_sync(audio_chunks, r)} :
       \E text \in {IF raw_text # <<>> THEN sanitize_whisper_text(raw_text) ELSE <<>>} :
       \E is_interrupt \in {text # <<>> /\ contains_interrupt_phrase(text, last_tts_text)} :
       \E is_skip \in {text # <<>> /\ contains_skip_phrase(text, last_tts_text)} :
           /\ iter' = [iter EXCEPT
                  !.heard = text,
                  !.did = @ \cup {"tts_transcribe"}
                            \cup (IF CallsWhisper(audio_chunks) THEN {"whisper"} ELSE {})
                            \cup (IF is_interrupt THEN {"interrupt"} ELSE {})
                            \cup (IF is_skip THEN {"skip"} ELSE {})]
           /\ IF is_interrupt \/ is_skip
              THEN /\ is_skip_only' = SkipOnly(is_interrupt, is_skip)
                   /\ tts_text_queue' = IF SkipOnly(is_interrupt, is_skip)
                                        THEN tts_text_queue ELSE <<>>
                   /\ dropped' = IF SkipOnly(is_interrupt, is_skip) THEN dropped
                                 ELSE dropped \cup {tts_text_queue[i].id :
                                                     i \in 1..Len(tts_text_queue)}
                   /\ tts_interrupt' = TRUE
                   /\ tts_playing' = FALSE
                   /\ tasks' = [k \in 1..Len(tasks) |->
                                  IF k = Current /\ tasks[k].pc # "done"
                                  THEN [tasks[k] EXCEPT !.cancel = TRUE]
                                  ELSE tasks[k]]
                   /\ pc' = "tts_sleep"
                   /\ UNCHANGED audio_chunks
              ELSE /\ audio_chunks' = <<>>
                   /\ pc' = "head"
                   /\ UNCHANGED << is_skip_only, tts_text_queue, tts_interrupt,
                                   tts_playing, tasks, dropped >>
    /\ UNCHANGED << clockVars, callVars, at_stop, startVars, sessionVars, silence_duration_ms, speech_detected,
                    recording_start, audio_queue, last_tts_text, last_tts_time,
                    tts_start_time, stateVars, toolVars, appended, failed, launched >>

\* Lines 180-189: after the sleep, flush the frame queue, play the chime,
\* refresh the activity timer of an active session, empty the buffer.  With
\* outcome "sound_raises" play_sound raises, the handler of line 298 ends
\* the iteration, and lines 186-189 do not run.
LoopTtsSleep(Outcomes) ==
    /\ pc = "tts_sleep"
    /\ audio_queue' = <<>>
    /\ \E outcome \in Outcomes \cap {"ok", "sound_raises"} :
       IF outcome = "ok"
       THEN /\ iter' = [iter EXCEPT
                   !.sounds = Append(@, IF is_skip_only THEN "skip" ELSE "stop")]
            /\ last_speech_time' = IF is_active THEN now ELSE last_speech_time
            /\ audio_chunks' = <<>>
            /\ pc' = "head"
       ELSE /\ iter' = [iter EXCEPT !.did = @ \cup {"exception"}]
            /\ UNCHANGED << last_speech_time, audio_chunks >>
            /\ pc' = AfterException
    /\ UNCHANGED << clockVars, callVars, at_stop, startVars, is_active, silence_duration_ms, speech_detected,
                    recording_start, is_skip_only, playbackVars, stateVars,
                    tasks, toolVars, historyVars >>

\* ------------------------------------------------------------------------
\* Playback tasks (core/loop.py tts_thread_func, audio/playback.py)
\* ------------------------------------------------------------------------

\* A speak call that reports success whatever happened.
SpeakResult_Always(success) == "spoke"

\* samantha_speak lines 216-219: what a speak call that played the text
\* itself returns.
SpeakResult(success) == IF success THEN "spoke" ELSE "tts_failed"

\* The task k with its position moved to p.
At(k, p) == [tasks EXCEPT ![k].pc = p]

\* A playback thread without a finally block.
Returned_NoFinally(k) == "done"

\* Where a task goes when speak_tts_sync returns: tts_thread_func runs its
\* finally block, a direct speak call returns to the tool thread.
Returned(k) == IF tasks[k].kind = "thread" THEN "fin_time" ELSE "done"

\* tts_thread_func line 125 and speak_tts_sync lines 38-39: the task
\* records its text as the last-spoken text, and the time.
TaskStart(k) ==
    /\ k \in 1..Len(tasks)
    /\ tasks[k].pc = "start"
    /\ last_tts_text' = tasks[k].text
    /\ last_tts_time' = now
    /\ tasks' = At(k, "reset")
    /\ UNCHANGED << clockVars, callVars, at_stop, startVars, pc, sessionVars, accVars, is_skip_only,
                    audio_queue, tts_text_queue, tts_playing, tts_start_time,
                    tts_interrupt, stateVars, toolVars, historyVars, iter >>

\* A playback that begins with the cancellation flag as it finds it.
ClearedAtStart_Kept == tts_interrupt

\* speak_tts_sync line 40: the value the cancellation flag is given when a
\* playback begins, _tts_interrupt = False.
ClearedAtStart == FALSE

\* speak_tts_sync line 40, _tts_interrupt = False, and
\* _speak_with_sounddevice lines 58-87, where the output stream and the
\* request are opened.  outcome is "stream" when the service answers 200
\* and the chunks follow, "error" when the request fails or the answer is
\* not 200 (speak_tts_sync will return False), and "portaudio" when the
\* output stream cannot be opened.
TaskReset(k, outcome) ==
    /\ k \in 1..Len(tasks)
    /\ tasks[k].pc = "reset"
    /\ tts_interrupt' = ClearedAtStart
    /\ tasks' = [tasks EXCEPT
                    ![k].pc = CASE outcome = "stream" -> "poll"
                                [] outcome = "error" -> "close"
                                [] outcome = "portaudio" -> "close_fallback",
                    ![k].ok = (outcome = "stream")]
    /\ UNCHANGED << clockVars, callVars, at_stop, startVars, pc, sessionVars, accVars, is_skip_only,
                    audio_queue, tts_text_queue, last_tts_text, last_tts_time,
                    tts_playing, tts_start_time, stateVars, toolVars, historyVars,
                    iter >>

\* _speak_with_sounddevice lines 89-97: one turn of the chunk loop.  With
\* more false the stream has ended; otherwise the task polls the
\* cancellation flag, aborts when it is set and writes the chunk when not.
TaskPoll(k, more) ==
    /\ k \in 1..Len(tasks)
    /\ tasks[k].pc = "poll"
    /\ tasks' = IF ~more \/ tts_interrupt
                THEN At(k, "close")
                ELSE [tasks EXCEPT ![k].missed = @ \/ tasks[k].cancel]
    /\ UNCHANGED << clockVars, callVars, at_stop, startVars, pc, sessionVars, accVars, is_skip_only,
                    audio_queue, playbackVars, stateVars, toolVars, historyVars,
                    iter >>

\* _speak_with_sounddevice lines 103-109, the finally block:
\* _tts_interrupt = False; after a PortAudio error speak_tts_sync then
\* falls back to the system player.
TaskClose(k) ==
    /\ k \in 1..Len(tasks)
    /\ tasks[k].pc \in {"close", "close_fallback"}
    /\ tts_interrupt' = FALSE
    /\ tasks' = [tasks EXCEPT
                    ![k].pc = IF tasks[k].pc = "close" THEN Returned(k) ELSE "fallback",
                    ![k].ended = IF tasks[k].pc = "close" THEN now ELSE @]
    /\ IF tasks[k].pc = "close" /\ tasks[k].kind = "direct"
       THEN /\ tool' = "idle"
            /\ result' = SpeakResult(tasks[k].ok)
       ELSE UNCHANGED << tool, result >>
    /\ UNCHANGED << clockVars, callVars, at_stop, thread_ready, active_file, start, pc, sessionVars, accVars, is_skip_only,
                    audio_queue, tts_text_queue, last_tts_text, last_tts_time,
                    tts_playing, tts_start_time, stateVars, pending, script,
                    historyVars, iter >>

\* _speak_with_system_player: the whole text is played by a system player,
\* which polls nothing (played is true), or the fallback fails.
TaskFallback(k, played) ==
    /\ k \in 1..Len(tasks)
    /\ tasks[k].pc = "fallback"
    /\ tasks' = [tasks EXCEPT ![k].pc = Returned(k),
                              ![k].ok = played,
                              ![k].ended = now,
                              ![k].missed = @ \/ (played /\ tasks[k].cancel)]
    /\ IF tasks[k].kind = "direct"
       THEN /\ tool' = "idle"
            /\ result' = SpeakResult(played)
       ELSE UNCHANGED << tool, result >>
    /\ UNCHANGED << clockVars, callVars, at_stop, thread_ready, active_file, start, pc, sessionVars, accVars, is_skip_only,
                    audio_queue, playbackVars, stateVars, pending, script,
                    historyVars, iter >>

\* tts_thread_func lines 131-132.
TaskFinTime(k) ==
    /\ k \in 1..Len(tasks)
    /\ tasks[k].pc = "fin_time"
    /\ last_tts_time' = now
    /\ tts_start_time' = 0
    /\ tasks' = At(k, "fin_playing")
    /\ UNCHANGED << clockVars, callVars, at_stop, startVars, pc, sessionVars, accVars, is_skip_only,
                    audio_queue, tts_text_queue, last_tts_text, tts_playing,
                    tts_interrupt, stateVars, toolVars, historyVars, iter >>

\* tts_thread_func line 133: _tts_playing = False
TaskFinPlaying(k) ==
    /\ k \in 1..Len(tasks)
    /\ tasks[k].pc = "fin_playing"
    /\ tts_playing' = FALSE
    /\ tasks' = At(k, "fin_event")
    /\ UNCHANGED << clockVars, callVars, at_stop, startVars, pc, sessionVars, accVars, is_skip_only,
                    audio_queue, tts_text_queue, last_tts_text, last_tts_time,
                    tts_start_time, tts_interrupt, stateVars, toolVars,
                    historyVars, iter >>

\* tts_thread_func line 134: done_event.set()
TaskFinEvent(k) ==
    /\ k \in 1..Len(tasks)
    /\ tasks[k].pc = "fin_event"
    /\ tasks' = At(k, "done")
    /\ UNCHANGED << clockVars, callVars, at_stop, startVars, pc, sessionVars, accVars, is_skip_only,
                    audio_queue, playbackVars, stateVars, toolVars, historyVars,
                    iter >>

\* ------------------------------------------------------------------------
\* Tool calls (tools/samantha_tools.py)
\* ------------------------------------------------------------------------

\* state._samantha_thread.is_alive()
ThreadAlive == pc \notin {"none", "aborted", "exited"}

\* The speak calls made so far.
Spoken == appended - failed

\* samantha_speak lines 207-209 and 213-215: the text is recorded as the
\* last-spoken text; with the loop thread alive the call goes on to append
\* it, otherwise it plays the text itself.
SpeakBegin(text) ==
    /\ tool = "idle"
    /\ last_tts_text' = text
    /\ appended' = appended + 1
    /\ IF ThreadAlive
       THEN /\ tool' = "speak_append"
            /\ pending' = Entry(appended + 1, text)
            /\ UNCHANGED tasks
       ELSE /\ tool' = "speaking"
            /\ tasks' = Append(tasks, NewTask(Entry(appended + 1, text), "direct"))
            /\ UNCHANGED pending
    /\ UNCHANGED script
    /\ UNCHANGED << clockVars, callVars, at_stop, startVars, pc, sessionVars, accVars, is_skip_only,
                    audio_queue, tts_text_queue, last_tts_time, tts_playing,
                    tts_start_time, tts_interrupt, stateVars, failed, launched, dropped,
                    iter >>

\* samantha_speak lines 210-212: the append, under the queue lock.
SpeakAppend ==
    /\ tool = "speak_append"
    /\ tts_text_queue' = Append(tts_text_queue, pending)
    /\ tool' = "idle"
    /\ result' = "spoke"
    /\ UNCHANGED << clockVars, callVars, at_stop, thread_ready, active_file, start, pc, sessionVars, accVars, is_skip_only,
                    audio_queue, last_tts_text, last_tts_time, tts_playing,
                    tts_start_time, tts_interrupt, stateVars, tasks, pending, script,
                    historyVars, iter >>

\* samantha_stop lines 127-130: the stop flag and the cancellation flag.
StopBegin ==
    /\ tool = "idle"
    /\ ~thread_stop_flag
    /\ thread_stop_flag' = TRUE
    /\ tts_interrupt' = TRUE
    /\ tool' = "stop_playing"
    /\ at_stop' = [ids |-> {tts_text_queue[i].id : i \in 1..Len(tts_text_queue)},
                   playing |-> {k \in 1..Len(tasks) : tasks[k].pc # "done"},
                   left |-> <<>>]
    /\ UNCHANGED << clockVars, callVars, startVars, pc, sessionVars, accVars, is_skip_only,
                    audio_queue, tts_text_queue, last_tts_text, last_tts_time,
                    tts_playing, tts_start_time, audio_stream, stream_open,
                    tasks, pending, script, historyVars, iter >>

\* samantha_stop line 131: _tts_playing = False
StopPlaying ==
    /\ tool = "stop_playing"
    /\ tts_playing' = FALSE
    /\ tool' = "stop_clear"
    /\ UNCHANGED << clockVars, callVars, at_stop, startVars, pc, sessionVars, accVars, is_skip_only,
                    audio_queue, tts_text_queue, last_tts_text, last_tts_time,
                    tts_start_time, tts_interrupt, stateVars, tasks, pending, script,
                    historyVars, iter >>

\* samantha_stop lines 133-134: the queue is cleared under its lock.
StopClear ==
    /\ tool = "stop_clear"
    /\ tts_text_queue' = <<>>
    /\ tool' = "stop_join"
    /\ UNCHANGED << clockVars, callVars, at_stop, startVars, pc, sessionVars, accVars, is_skip_only,
                    audio_queue, last_tts_text, last_tts_time, tts_playing,
                    tts_start_time, tts_interrupt, stateVars, tasks, pending, script,
                    historyVars, iter >>

\* samantha_stop lines 137-160: the join times out or not; a loop thread
\* still alive has its stream closed; the stream reference is dropped and
\* the active marker removed.
StopJoin ==
    /\ tool = "stop_join"
    /\ stream_open' = FALSE
    /\ audio_stream' = FALSE
    /\ active_file' = "absent"
    /\ tool' = "idle"
    /\ result' = "stopped"
    /\ at_stop' = [at_stop EXCEPT !.left = tts_text_queue]
    /\ UNCHANGED << clockVars, callVars, thread_ready, start, pc, sessionVars, accVars, is_skip_only,
                    audio_queue, playbackVars, thread_stop_flag, tasks,
                    pending, script, historyVars, iter >>

\* A check that never finds another process.
RunningElsewhere_Never == FALSE

\* is_samantha_running_elsewhere: the marker names another process that
\* os.kill(pid, 0) finds alive.
RunningElsewhere == active_file = "live"

\* samantha_start lines 44-56.  A call made while the loop thread is alive
\* or the marker names another live process returns at once.  Otherwise
\* the marker is rewritten with this process's pid (a marker of a dead
\* process, or of a process that may not be signalled, is removed by
\* is_samantha_running_elsewhere first), and the call awaits the services.
StartBegin ==
    /\ tool = "idle"
    /\ start = "none"
    /\ IF ThreadAlive \/ RunningElsewhere
       THEN /\ result' = "already_running"
            /\ UNCHANGED << active_file, start >>
       ELSE /\ active_file' = "own"
            /\ start' = "kokoro"
            /\ UNCHANGED result
    /\ UNCHANGED << clockVars, callVars, at_stop, thread_ready, pc, sessionVars, accVars,
                    is_skip_only, audio_queue, playbackVars, stateVars, tasks,
                    tool, pending, script, historyVars, iter >>

\* samantha_start line 58: ensure_kokoro_running returns.
StartKokoro(kokoro_ok) ==
    /\ tool = "idle"
    /\ start = "kokoro"
    /\ start' = IF kokoro_ok THEN "whisper" ELSE "whisper_only"
    /\ UNCHANGED << clockVars, callVars, at_stop, thread_ready, active_file, result, pc,
                    sessionVars, accVars, is_skip_only, audio_queue,
                    playbackVars, stateVars, tasks, tool, pending, script,
                    historyVars, iter >>

\* The loop threads alive at most besides the one referred to.
MaxUnreferenced == 2

\* samantha_start lines 59-71, for a call suspended at the await here:
\* ensure_whisper_running returns.  When a service is missing the marker is
\* removed and the call fails; otherwise the stop flag is cleared, a new
\* readiness event is made and the loop thread started (lines 50-83 of the
\* loop set its locals), and the call waits for readiness.  The new thread
\* replaces the reference state._samantha_thread: a loop thread that is
\* alive then is referred to no longer.
LaunchFrom(here, whisper_ok) ==
    IF here = "whisper_only" \/ ~whisper_ok
    THEN /\ active_file' = "absent"
         /\ result' = IF here = "whisper_only"
                       THEN "kokoro_failed" ELSE "whisper_failed"
         /\ UNCHANGED << thread_stop_flag, thread_ready, pc, sessionVars,
                         accVars, audio_queue, tool, unreferenced >>
    ELSE /\ ThreadAlive => unreferenced < MaxUnreferenced
         /\ unreferenced' = IF ThreadAlive THEN unreferenced + 1 ELSE unreferenced
         /\ thread_stop_flag' = FALSE
         /\ thread_ready' = "clear"
         /\ pc' = "open"
         /\ is_active' = FALSE
         /\ last_speech_time' = 0
         /\ audio_chunks' = <<>>
         /\ silence_duration_ms' = 0
         /\ speech_detected' = FALSE
         /\ recording_start' = 0
         /\ audio_queue' = <<>>
         /\ tool' = "start_wait"
         /\ UNCHANGED << active_file, result >>

\* samantha_start lines 59-71: ensure_whisper_running returns.
StartLaunch(whisper_ok) ==
    /\ tool = "idle"
    /\ start \in {"whisper", "whisper_only"}
    /\ start' = "none"
    /\ LaunchFrom(start, whisper_ok)
    /\ UNCHANGED << clockVars, start2, at_stop, is_skip_only, playbackVars,
                    audio_stream, stream_open, tasks, pending, script,
                    historyVars, iter >>

\* samantha_start line 73: the wait returns, true when readiness was
\* signalled, false when the 30 s ran out first (timed_out); line 89:
\* a ready start succeeds.
StartWait(timed_out) ==
    /\ tool = "start_wait"
    /\ timed_out = (thread_ready # "set")
    /\ IF timed_out
       THEN /\ tool' = "start_fail"
            /\ UNCHANGED result
       ELSE /\ tool' = "idle"
            /\ result' = "started"
    /\ UNCHANGED << clockVars, callVars, at_stop, thread_ready, active_file, start, pc,
                    sessionVars, accVars, is_skip_only, audio_queue,
                    playbackVars, stateVars, tasks, pending, script,
                    historyVars, iter >>

\* samantha_start lines 76-78: the start that was not ready sets the stop
\* flag, removes the marker and fails.
StartFail ==
    /\ tool = "start_fail"
    /\ thread_stop_flag' = TRUE
    /\ active_file' = "absent"
    /\ result' = "not_ready"
    /\ tool' = "idle"
    /\ UNCHANGED << clockVars, callVars, at_stop, thread_ready, start, pc, sessionVars, accVars,
                    is_skip_only, audio_queue, playbackVars, audio_stream,
                    stream_open, tasks, pending, script, historyVars, iter >>

\* samantha_status lines 234-239: the call reports whether the active
\* marker exists.
samantha_status ==
    /\ tool = "idle"
    /\ result' = IF active_file # "absent" THEN "active" ELSE "inactive"
    /\ UNCHANGED << clockVars, callVars, at_stop, thread_ready, active_file, start, pc,
                    sessionVars, accVars, is_skip_only, audio_queue,
                    playbackVars, stateVars, tasks, toolVars, historyVars, iter >>

\* ------------------------------------------------------------------------
\* Steps of the threads
\* ------------------------------------------------------------------------

\* One step of a playback task.
TaskStep(Outcomes) ==
    \E k \in 1..Len(tasks) :
        \/ TaskStart(k)
        \/ \E outcome \in Outcomes : TaskReset(k, outcome)
        \/ \E more \in BOOLEAN : TaskPoll(k, more)
        \/ TaskClose(k)
        \/ \E played \in BOOLEAN : TaskFallback(k, played)
        \/ TaskFinTime(k)
        \/ TaskFinPlaying(k)
        \/ TaskFinEvent(k)

\* One step of a speak call: the next text of the script.
SpeakStep ==
    \/ Spoken < Len(script) /\ SpeakBegin(script[Spoken + 1])
    \/ SpeakAppend

\* One step of a start call.
StartStep ==
    \/ StartBegin
    \/ \E kokoro_ok \in BOOLEAN : StartKokoro(kokoro_ok)
    \/ \E whisper_ok \in BOOLEAN : StartLaunch(whisper_ok)
    \/ \E timed_out \in BOOLEAN : StartWait(timed_out)
    \/ StartFail

\* One step of a stop call.
StopStep ==
    \/ StopBegin
    \/ StopPlaying
    \/ StopClear
    \/ StopJoin

\* ------------------------------------------------------------------------
\* Inputs of the runs: texts given to speak, answers of the transcription
\* service, frames of the input stream
\* ------------------------------------------------------------------------

\* "all done"
SAY_DONE == <<"a","l","l"," ","d","o","n","e">>

\* "I'll stop here"
SAY_STOP == <<"I","'","l","l"," ","s","t","o","p"," ","h","e","r","e">>

\* "skip it"
SAY_SKIP == <<"s","k","i","p"," ","i","t">>

\* "Stop."
HEARD_STOP == <<"S","t","o","p",".">>

\* "skip"
HEARD_SKIP == <<"s","k","i","p">>

\* "stop and skip"
HEARD_BOTH == <<"s","t","o","p"," ","a","n","d"," ","s","k","i","p">>

\* "hello"
HEARD_HELLO == <<"h","e","l","l","o">>

\* "um hey Sam go that's all ok"
HEARD_WAKE == <<"u","m"," ","h","e","y"," ","S","a","m"," ","g","o"," ","t","h","a","t","'","s"," ","a","l","l"," ","o","k">>

\* "sam hi"
HEARD_SAM == <<"s","a","m"," ","h","i">>

\* "hey sammy"
HEARD_SAMMY == <<"h","e","y"," ","s","a","m","m","y">>

\* "samantha goodbye"
HEARD_BYE == <<"s","a","m","a","n","t","h","a"," ","g","o","o","d","b","y","e">>

\* "run tests"
HEARD_CMD == <<"r","u","n"," ","t","e","s","t","s">>

\* "click"
HEARD_CLICK == <<"c","l","i","c","k">>

\* "AI is open"
HEARD_ECHO == <<"A","I"," ","i","s"," ","o","p","e","n">>

\* The largest sample of a frame somebody speaks in.
LOUD == 2000

SpeechFrame == Frame("speech", LOUD)

QuietFrame == Frame("quiet", 0)

\* A frame the detector raises on.
BadFrame == Frame("bad", LOUD)

\* Playback with speak calls: the synthesis service streams every text,
\* the user speaks during a playback, for as long as an interrupt check
\* takes, and the clock advances by the grace period of the interrupt
\* check.
NextPlay ==
    \/ /\ pc = "branch" /\ tts_playing
       /\ (Len(audio_chunks) + 1) * VAD_CHUNK_DURATION_MS >= TTS_CHECK_MIN_MS
       /\ now < tts_start_time + TTS_GRACE
       /\ Tick(TTS_GRACE)
    \/ /\ pc = "branch" /\ tts_playing
       /\ Len(audio_chunks) * VAD_CHUNK_DURATION_MS <= TTS_CHECK_MIN_MS
       /\ AudioCallback(SpeechFrame)
    \/ LoopHead
    \/ LoopDequeue
    \/ LoopBranch({"ok"})
    \/ \E r \in {HEARD_STOP, HEARD_SKIP, HEARD_BOTH, HEARD_HELLO, <<>>} : LoopTtsCheck(r)
    \/ LoopTtsSleep({"ok"})
    \/ TaskStep({"stream"})
    \/ SpeakStep

SpecPlay ==
    InitWith({<<SAY_STOP, <<>>, SAY_DONE>>, <<SAY_DONE, SAY_STOP>>, <<SAY_DONE, SAY_SKIP>>})
        /\ [][NextPlay]_vars

\* Playback with speak calls and a stop call.
NextStop ==
    \/ NextPlay
    \/ StopStep

SpecStop == InitWith({<<SAY_DONE, SAY_STOP>>}) /\ [][NextStop]_vars

\* Listening, with the playback of the notice of a failed injection: the
\* loop keeps up with the stream, the user utters one burst of speech and
\* is then silent, speaks during a playback, and the clock advances by the
\* grace period of an utterance, by the grace period of the interrupt check,
\* or past the silence timeout.
NextSession ==
    \/ /\ pc = "branch"
       /\ \/ /\ ~tts_playing /\ speech_detected
             /\ silence_duration_ms + VAD_CHUNK_DURATION_MS >= SILENCE_THRESHOLD_MS
             /\ now < recording_start + INITIAL_SILENCE_GRACE_PERIOD
             /\ Tick(INITIAL_SILENCE_GRACE_PERIOD)
          \/ /\ tts_playing
             /\ (Len(audio_chunks) + 1) * VAD_CHUNK_DURATION_MS >= TTS_CHECK_MIN_MS
             /\ now < tts_start_time + TTS_GRACE
             /\ Tick(TTS_GRACE)
          \/ /\ ~tts_playing /\ ~speech_detected /\ is_active /\ ~TimedOut
             /\ Tick(silence_timeout + 1)
    \/ /\ pc = "branch" /\ audio_queue = <<>>
       /\ tts_playing => Len(audio_chunks) * VAD_CHUNK_DURATION_MS <= TTS_CHECK_MIN_MS
       /\ AudioCallback(IF tts_playing \/ ~speech_detected
                        THEN SpeechFrame ELSE QuietFrame)
    \/ LoopHead
    \/ LoopDequeue
    \/ LoopBranch({"ok", "sound_raises"})
    \/ \E r \in {HEARD_STOP, HEARD_SKIP, HEARD_HELLO} : LoopTtsCheck(r)
    \/ LoopTtsSleep({"ok", "sound_raises"})
    \/ \E r \in {HEARD_WAKE, HEARD_SAM, HEARD_SAMMY, HEARD_BYE, HEARD_CMD,
                 HEARD_CLICK, HEARD_ECHO, BLANK_AUDIO, <<>>} :
          LoopUtterance(r, {"ok", "no_target", "sound_raises", "inject_raises"})
    \/ TaskStep({"stream", "error", "portaudio"})

SpecSession == InitWith({<<>>}) /\ [][NextSession]_vars

\* A session with speak calls at any moment, in which the texts of the
\* speak calls and the notice of a failed injection meet in the queue:
\* the user says the wake word while nothing plays, and no target for the
\* injection is found.
NextOrder ==
    \/ /\ pc = "branch" /\ ~tts_playing /\ speech_detected
       /\ silence_duration_ms + VAD_CHUNK_DURATION_MS >= SILENCE_THRESHOLD_MS
       /\ now < recording_start + INITIAL_SILENCE_GRACE_PERIOD
       /\ Tick(INITIAL_SILENCE_GRACE_PERIOD)
    \/ /\ pc = "branch" /\ audio_queue = <<>> /\ ~tts_playing
       /\ AudioCallback(IF ~speech_detected THEN SpeechFrame ELSE QuietFrame)
    \/ LoopHead
    \/ LoopDequeue
    \/ LoopBranch({"ok"})
    \/ LoopUtterance(HEARD_SAM, {"ok", "no_target"})
    \/ TaskStep({"stream"})
    \/ SpeakStep

SpecOrder == InitWith({<<SAY_DONE, SAY_STOP>>}) /\ [][NextOrder]_vars

\* A session in which the calls of the loop fail now and then, with a stop
\* call at any moment.
NextFault ==
    \/ /\ pc = "branch"
       /\ \/ /\ ~tts_playing /\ speech_detected
             /\ silence_duration_ms + VAD_CHUNK_DURATION_MS >= SILENCE_THRESHOLD_MS
             /\ now < recording_start + INITIAL_SILENCE_GRACE_PERIOD
             /\ Tick(INITIAL_SILENCE_GRACE_PERIOD)
          \/ /\ tts_playing
             /\ (Len(audio_chunks) + 1) * VAD_CHUNK_DURATION_MS >= TTS_CHECK_MIN_MS
             /\ now < tts_start_time + TTS_GRACE
             /\ Tick(TTS_GRACE)
          \/ /\ ~tts_playing /\ ~speech_detected /\ is_active /\ ~TimedOut
             /\ Tick(silence_timeout + 1)
    \/ /\ pc = "branch" /\ audio_queue = <<>>
       /\ tts_playing => Len(audio_chunks) * VAD_CHUNK_DURATION_MS <= TTS_CHECK_MIN_MS
       /\ AudioCallback(IF tts_playing \/ ~speech_detected
                        THEN SpeechFrame ELSE QuietFrame)
    \/ LoopHead
    \/ LoopDequeue
    \/ LoopBranch({"ok", "sound_raises"})
    \/ \E r \in {HEARD_STOP, HEARD_HELLO} : LoopTtsCheck(r)
    \/ LoopTtsSleep({"ok", "sound_raises"})
    \/ \E r \in {HEARD_SAM, HEARD_CMD} :
          LoopUtterance(r, {"ok", "no_target", "sound_raises", "inject_raises"})
    \/ TaskStep({"stream"})
    \/ StopStep

SpecFault == InitWith({<<>>}) /\ [][NextFault]_vars

\* The steps of the loop thread while something plays or the loop listens,
\* every call returning.
LoopStep ==
    \/ LoopHead
    \/ LoopDequeue
    \/ LoopBranch({"ok"})
    \/ \E r \in {HEARD_STOP, <<>>} : LoopTtsCheck(r)
    \/ LoopTtsSleep({"ok", "sound_raises"})

\* Playback and listening with a stop call at any moment, and a scheduler
\* that lets the loop thread run: the thread is an operating-system thread
\* whose waits are bounded (the queue reads of lines 141 and 222 time out,
\* the sleeps of lines 185, 192 and 300 end).
NextHalt ==
    \/ /\ pc = "branch" /\ tts_playing
       /\ (Len(audio_chunks) + 1) * VAD_CHUNK_DURATION_MS >= TTS_CHECK_MIN_MS
       /\ now < tts_start_time + TTS_GRACE
       /\ Tick(TTS_GRACE)
    \/ /\ pc = "branch" /\ audio_queue = <<>>
       /\ Len(audio_chunks) * VAD_CHUNK_DURATION_MS <= TTS_CHECK_MIN_MS
       /\ tts_playing \/ audio_chunks = <<>>
       /\ AudioCallback(SpeechFrame)
    \/ LoopStep
    \/ TaskStep({"stream"})
    \/ SpeakStep
    \/ StopStep

SpecHalt == InitWith({<<SAY_DONE>>}) /\ [][NextHalt]_vars /\ WF_vars(LoopStep)

\* The number of frames that are not silence.
Burst(frames) == Cardinality({i \in 1..Len(frames) : frames[i].vad # "quiet"})

\* The life of the loop thread: start, speak and stop calls in any order,
\* a stream that opens or not, services that run or not, a start that is
\* ready in time or not; the user says a word now and then.
NextLife ==
    \/ StartStep
    \/ StopStep
    \/ SpeakStep
    \/ \E opened \in BOOLEAN : LoopOpen(opened)
    \/ /\ pc = "branch" /\ audio_queue = <<>> /\ audio_chunks = <<>>
       /\ AudioCallback(SpeechFrame)
    \/ LoopHead
    \/ LoopDequeue
    \/ LoopBranch({"ok"})
    \/ TaskStep({"stream", "error", "portaudio"})

SpecLife ==
    InitIdle({<<SAY_DONE>>}, {"absent", "live", "foreign", "stale"}) /\ [][NextLife]_vars

\* The life of the loop thread with status calls between the other calls
\* and while a start call awaits the services.
NextStatus ==
    \/ NextLife
    \/ samantha_status

SpecStatus ==
    InitIdle({<<SAY_DONE>>}, {"absent", "live", "stale"}) /\ [][NextStatus]_vars

\* Two speak calls among start and stop calls, with a synthesis that works
\* or not; nobody speaks to the microphone.
NextSpeak ==
    \/ StartStep
    \/ StopStep
    \/ SpeakStep
    \/ LoopOpen(TRUE)
    \/ LoopHead
    \/ LoopDequeue
    \/ LoopBranch({"ok"})
    \/ TaskStep({"stream", "error", "portaudio"})

SpecSpeak == InitIdle({<<SAY_DONE, SAY_STOP>>}, {"absent"}) /\ [][NextSpeak]_vars

\* Listening only: short bursts of speech in silence, the detector failing
\* on some frames; the loop keeps up with the stream, and the clock advances when the next frame can bring
\* the silence to its threshold, to just below the minimum
\* recording duration and from there to the grace period.
NextListen ==
    \/ /\ pc = "branch" /\ speech_detected
       /\ silence_duration_ms + VAD_CHUNK_DURATION_MS >= SILENCE_THRESHOLD_MS
       /\ \E d \in {MIN_RECORDING_DURATION - 1,
                    INITIAL_SILENCE_GRACE_PERIOD - MIN_RECORDING_DURATION + 1} : Tick(d)
    \/ /\ pc = "branch" /\ audio_queue = <<>>
       /\ \E f \in {SpeechFrame, QuietFrame, BadFrame} :
             /\ speech_detected \/ Len(audio_chunks) < 2
             /\ Burst(Append(audio_chunks, f)) <= MaxBurst
             /\ AudioCallback(f)
    \/ LoopHead
    \/ LoopDequeue
    \/ LoopBranch({"ok"})
    \/ \E r \in {HEARD_SAM, <<>>} : LoopUtterance(r, {"ok"})

SpecListen == InitWith({<<>>}) /\ [][NextListen]_vars

\* The interrupt check of a playback: frames of every kind arrive while the
\* buffer fills, the clock advances to just before the grace period of the
\* check and then past it, and the chime of an interrupt may fail to play.
NextBuffer ==
    \/ /\ pc = "branch" /\ tts_playing
       /\ \E d \in {TTS_GRACE - 1, 1} : Tick(d)
    \/ /\ pc = "branch" /\ tts_playing /\ audio_queue = <<>>
       /\ Len(audio_chunks) * VAD_CHUNK_DURATION_MS <= TTS_CHECK_MIN_MS
       /\ \E f \in {SpeechFrame, QuietFrame, BadFrame} : AudioCallback(f)
    \/ LoopHead
    \/ LoopDequeue
    \/ LoopBranch({"ok"})
    \/ \E r \in {HEARD_STOP, HEARD_SKIP, HEARD_HELLO, <<>>} : LoopTtsCheck(r)
    \/ LoopTtsSleep({"ok", "sound_raises"})
    \/ TaskStep({"stream"})
    \/ SpeakStep

SpecBuffer == InitWith({<<SAY_DONE>>}) /\ [][NextBuffer]_vars

\* ------------------------------------------------------------------------
\* The text functions applied to what is heard and what was spoken
\* ------------------------------------------------------------------------

\* The number of words of a transcription that is put together word by word.
MaxWords == 3

\* The texts the assistant speaks while the user tries to interrupt.
INTERRUPT_SAID ==
    { <<"I","'","l","l"," ","s","t","o","p"," ","h","e","r","e">>,
      <<"P","l","e","a","s","e"," ","b","e"," ","q","u","i","e","t">>,
      <<"S","t","o","p"," ","i","t"," ","a","n","d"," ","b","e"," ","Q","u","i","e","t">>,
      <<"I","t"," ","i","s"," ","u","n","s","t","o","p","p","a","b","l","e">>,
      <<"h","e","l","l","o"," ","t","h","e","r","e">> }

\* The words of what the user says meanwhile, as the service writes them.
INTERRUPT_HEARD ==
    { <<"s","t","o","p">>,
      <<"S","t","o","p","!">>,
      <<"q","u","i","e","t">>,
      <<"h","e","l","l","o">>,
      <<"s","t","o","p","p","i","n","g">> }

\* The transcription service returns one more word w of what is said.
HearWord(w) ==
    /\ iter.did = {}
    /\ Len(Split(iter.text)) < MaxWords
    /\ iter' = [iter EXCEPT !.text = IF @ = <<>> THEN w ELSE @ \o <<" ">> \o w]
    /\ UNCHANGED << clockVars, callVars, at_stop, startVars, pc, sessionVars, accVars,
                    is_skip_only, audio_queue, playbackVars, stateVars, tasks,
                    toolVars, historyVars >>

\* loop.py lines 162-164: the transcription is sanitized and searched for
\* an interrupt word against the last-spoken text.
ApplyInterrupt ==
    /\ iter.did = {}
    /\ iter.text # <<>>
    /\ \E text \in {sanitize_whisper_text(iter.text)} :
          iter' = [iter EXCEPT
              !.heard = text,
              !.did = {"tts_transcribe"}
                        \cup (IF text # <<>> /\ contains_interrupt_phrase(text, last_tts_text)
                              THEN {"interrupt"} ELSE {})]
    /\ UNCHANGED << clockVars, callVars, at_stop, startVars, pc, sessionVars, accVars,
                    is_skip_only, audio_queue, playbackVars, stateVars, tasks,
                    toolVars, historyVars >>

\* The assistant speaks one text or none; the user then says up to
\* MaxWords words, and what was heard is searched for an interrupt word.
NextInterrupt ==
    \/ iter.text = <<>> /\ SpeakStep
    \/ \E w \in INTERRUPT_HEARD : HearWord(w)
    \/ ApplyInterrupt

SpecInterrupt ==
    InitWith({<<t>> : t \in INTERRUPT_SAID}) /\ [][NextInterrupt]_vars

\* The texts the assistant speaks before the user is heard; the second ends
\* with a line break.
ECHO_SAID ==
    { <<"I","'","v","e"," ","u","p","d","a","t","e","d"," ","t","h","e"," ","c","o","n","f","i","g","u","r","a","t","i","o","n"," ","f","i","l","e"," ","f","o","r"," ","y","o","u">>,
      <<"A","l","l"," ","d","o","n","e",".",NEWLINE>> }

\* The transcriptions of what is heard afterwards: parts of what was spoken,
\* more than what was spoken, and texts of 5, 4 and 3 words that share 4, 2
\* and 2 words with it.
ECHO_HEARD ==
    { <<"u","p","d","a","t","e","d"," ","t","h","e"," ","c","o","n","f","i","g","u","r","a","t","i","o","n"," ","f","i","l","e">>,
      <<"U","P","D","A","T","E","D"," ","t","h","e"," ","C","o","n","f","i","g","u","r","a","t","i","o","n">>,
      <<"I","'","v","e"," ","u","p","d","a","t","e","d"," ","t","h","e"," ","c","o","n","f","i","g","u","r","a","t","i","o","n"," ","f","i","l","e"," ","f","o","r"," ","y","o","u"," ","t","h","a","n","k","s">>,
      <<"t","h","e"," ","f","i","l","e"," ","f","o","r"," ","y","o","u"," ","n","o","w">>,
      <<"f","i","l","e"," ","y","o","u"," ","n","o","w"," ","p","l","e","a","s","e">>,
      <<"y","o","u"," ","f","i","l","e"," ","n","o","w">>,
      <<"a","l","l"," ","d","o","n","e","."," ","n","e","x","t">>,
      <<"h","e","l","l","o"," ","w","o","r","l","d">> }

\* Every playback of the run has ended.
PlaybackOver ==
    /\ Spoken = Len(script)
    /\ tool = "idle"
    /\ tts_text_queue = <<>>
    /\ \A k \in 1..Len(tasks) : tasks[k].pc = "done"

\* loop.py lines 261-267: a transcription, never empty there, is tested for
\* echo against the last-spoken text and the time its playback ended.
ApplyEcho(text) ==
    /\ iter.text = <<>>
    /\ pc = "branch"
    /\ PlaybackOver
    /\ text # <<>>
    /\ iter' = [iter EXCEPT
           !.text = text,
           !.did = @ \cup {IF is_echo(text, last_tts_text, last_tts_time, now)
                           THEN "echo" ELSE "no_echo"}]
    /\ UNCHANGED << clockVars, callVars, at_stop, startVars, pc, sessionVars, accVars,
                    is_skip_only, audio_queue, playbackVars, stateVars, tasks,
                    toolVars, historyVars >>

\* The assistant speaks a text or none, the playback ends, 2 s, 8 s, a
\* millisecond more than 8 s or 15 s pass, once or twice, and a
\* transcription is tested for echo.
NextEcho ==
    \/ SpeakStep
    \/ pc \in {"head", "dequeue"} /\ (LoopHead \/ LoopDequeue)
    \/ TaskStep({"stream"})
    \/ /\ PlaybackOver /\ iter.text = <<>> /\ pc = "branch"
       /\ \E d \in {2000, 8000, 8001, 15000} : Tick(d)
    \/ \E text \in ECHO_HEARD : ApplyEcho(text)

SpecEcho ==
    InitWith({<<>>} \cup {<<t>> : t \in ECHO_SAID}) /\ [][NextEcho]_vars

\* ------------------------------------------------------------------------
\* The energy gate
\* ------------------------------------------------------------------------

\* Frames the detector takes for speech, with a peak sample of 800, of
\* -1499 and of 1500.
SoftFrame == Frame("speech", 800)

EdgeFrame == Frame("speech", 1 - DEFAULT_MIN_AUDIO_ENERGY)

ThresholdFrame == Frame("speech", DEFAULT_MIN_AUDIO_ENERGY)

\* Listening and the interrupt check of a playback with speech of any
\* level: the user utters one or two frames of speech followed by silence,
\* the assistant then speaks, and the interrupt-check buffer of its
\* playback has a first and a last frame of any level, the others soft.
NextEnergy ==
    \/ /\ pc = "branch" /\ ~tts_playing /\ speech_detected
       /\ silence_duration_ms + VAD_CHUNK_DURATION_MS >= SILENCE_THRESHOLD_MS
       /\ now < recording_start + INITIAL_SILENCE_GRACE_PERIOD
       /\ Tick(INITIAL_SILENCE_GRACE_PERIOD)
    \/ /\ pc = "branch" /\ tts_playing
       /\ now < tts_start_time + TTS_GRACE
       /\ Tick(TTS_GRACE)
    \/ /\ pc = "branch" /\ audio_queue = <<>> /\ ~tts_playing
       /\ Spoken = 0 /\ tool = "idle"
       /\ \E f \in {SoftFrame, EdgeFrame, ThresholdFrame, QuietFrame} :
             /\ speech_detected \/ f.vad = "speech"
             /\ Burst(Append(audio_chunks, f)) <= MaxBurst
             /\ AudioCallback(f)
    \/ /\ pc = "branch" /\ audio_queue = <<>> /\ tts_playing
       /\ Len(audio_chunks) * VAD_CHUNK_DURATION_MS < TTS_CHECK_MIN_MS
       /\ \E f \in {SoftFrame, EdgeFrame, ThresholdFrame} :
             /\ f = SoftFrame \/ audio_chunks = <<>>
                \/ (Len(audio_chunks) + 1) * VAD_CHUNK_DURATION_MS = TTS_CHECK_MIN_MS
             /\ AudioCallback(f)
    \/ LoopHead
    \/ LoopDequeue
    \/ LoopBranch({"ok"})
    \/ LoopTtsCheck(HEARD_STOP)
    \/ LoopTtsSleep({"ok"})
    \/ LoopUtterance(HEARD_SAM, {"ok"})
    \/ TaskStep({"stream"})
    \/ ~speech_detected /\ audio_chunks = <<>> /\ audio_queue = <<>> /\ SpeakStep

SpecEnergy == InitWith({<<SAY_DONE>>}) /\ [][NextEnergy]_vars

\* ------------------------------------------------------------------------
\* Commands as they are cleaned
\* ------------------------------------------------------------------------

\* The parts of an utterance: what comes before the wake word, the wake
\* word, the command, the stop phrase, and what comes after it.
CLEAN_BEFORE ==
    { <<>>,
      <<"u","h"," ","[","m","u","s","i","c","]"," ">>,
      <<"(","c","o","u","g","h",")"," ","S","o",","," ">> }

\* The wake word as the service writes it, or none.
CLEAN_WAKE ==
    { <<>>,
      <<"h","e","y"," ","s","a","m","a","n","t","h","a">>,
      <<"H","e","y",","," ","S","a","m","a","n","t","h","a">>,
      <<"o","k"," ","s","a","m">>,
      <<"s","a","m","a","n","t","h","a">> }

\* The command, plain or with a pause in it.
CLEAN_COMMAND ==
    { <<" ","t","u","r","n"," ","o","n"," ","d","a","r","k"," ","m","o","d","e">>,
      <<" ","t","u","r","n"," "," ","o","n"," ","(","p","a","u","s","e",")"," ","d","a","r","k"," ","m","o","d","e">> }

\* The stop phrase, or none.
CLEAN_STOP ==
    { <<>>,
      <<" ","t","h","a","t","'","s"," ","a","l","l">>,
      <<" ","S","e","n","d"," ","i","t">> }

\* What is said after it.
CLEAN_AFTER ==
    { <<>>,
      <<" ","t","h","a","n","k","s">>,
      <<" ","h","e","y"," ","s","a","m"," ","o","v","e","r"," ","o","u","t">> }

\* The utterances put together from these parts, stripped as
\* transcribe_audio_sync returns them.
CLEAN_UTTERANCES ==
    {Strip(b \o w \o c \o s \o a) :
        b \in CLEAN_BEFORE, w \in CLEAN_WAKE, c \in CLEAN_COMMAND,
        s \in CLEAN_STOP, a \in CLEAN_AFTER}

\* loop.py lines 278 and 287: the transcription is cleaned for forwarding;
\* heard is what cleaning makes of the sanitized transcription.
ApplyClean(text) ==
    /\ iter.text = <<>>
    /\ iter' = [iter EXCEPT
           !.text = text,
           !.heard = clean_command(sanitize_whisper_text(text)),
           !.injected = <<clean_command(text)>>,
           !.did = {"clean"}]
    /\ UNCHANGED << clockVars, callVars, at_stop, startVars, pc, sessionVars, accVars,
                    is_skip_only, audio_queue, playbackVars, stateVars, tasks,
                    toolVars, historyVars >>

\* One utterance is cleaned.
NextClean == \E text \in CLEAN_UTTERANCES : ApplyClean(text)

SpecClean == InitWith({<<>>}) /\ [][NextClean]_vars

\* ------------------------------------------------------------------------
\* Long utterances
\* ------------------------------------------------------------------------

\* The number of frames of a long utterance: more than the 500 frames of
\* the rolling window of an idle session, with the silence that ends it.
MaxLong == 540

\* The first frame of speech of an utterance, told from the others by its
\* peak.
OnsetFrame == Frame("speech", LOUD + 1)

\* The frames of the rolling window of an idle session.
InactiveWindow == MAX_INACTIVE_AUDIO_MS \div VAD_CHUNK_DURATION_MS

\* Utterances of any length, of an idle and of an active session: speech
\* from the onset frame on, then silence until the utterance is complete;
\* the silence begins after one or two frames of speech or when the
\* utterance is about to outgrow the rolling window.
NextLong ==
    \/ /\ pc = "branch" /\ speech_detected
       /\ silence_duration_ms + VAD_CHUNK_DURATION_MS >= SILENCE_THRESHOLD_MS
       /\ now < recording_start + INITIAL_SILENCE_GRACE_PERIOD
       /\ Tick(INITIAL_SILENCE_GRACE_PERIOD)
    \/ /\ pc = "branch" /\ audio_queue = <<>>
       /\ \E f \in {OnsetFrame, SpeechFrame, QuietFrame} :
             /\ f = OnsetFrame <=> ~speech_detected
             /\ f = OnsetFrame => ticks < MaxTicks
             /\ f = SpeechFrame => audio_chunks[Len(audio_chunks)].vad = "speech"
             /\ f = QuietFrame =>
                   \/ silence_duration_ms + VAD_CHUNK_DURATION_MS < SILENCE_THRESHOLD_MS
                   \/ now >= recording_start + INITIAL_SILENCE_GRACE_PERIOD
             /\ f = QuietFrame =>
                   \/ audio_chunks[Len(audio_chunks)].vad = "quiet"
                   \/ Len(audio_chunks) <= 2
                   \/ Len(audio_chunks) + (SILENCE_THRESHOLD_MS \div VAD_CHUNK_DURATION_MS)
                         >= InactiveWindow
             /\ AudioCallbackWithin(f, MaxLong)
    \/ LoopHead
    \/ LoopDequeue
    \/ LoopBranch({"ok"})
    \/ LoopUtterance(HEARD_SAM, {"ok"})

SpecLong == InitWith({<<>>}) /\ [][NextLong]_vars

\* ------------------------------------------------------------------------
\* Listening after a playback
\* ------------------------------------------------------------------------

\* Some playback task is sending audio to the output: it is in the chunk
\* loop of _speak_with_sounddevice or in the system player.
Audible == \E k \in 1..Len(tasks) : tasks[k].pc \in {"poll", "fallback"}

\* The frames the stream captures while a playback is audible, told from
\* the others by their peaks: one the detectors take for speech, one they
\* take for silence.
PlaybackFrame == Frame("speech", LOUD + 2)

PlaybackPause == Frame("quiet", 2)

\* One speak call, a playback by the output stream or by the system player,
\* and a user who says "stop" or "hello" during the playback; in the
\* listening branch the stream delivers one frame of speech and then
\* silence.  The first frame follows the speak call, and the playback task
\* takes its steps between the recordings of the loop.
NextAfterPlay ==
    \/ /\ pc = "branch"
       /\ \/ /\ ~tts_playing /\ speech_detected
             /\ silence_duration_ms + VAD_CHUNK_DURATION_MS >= SILENCE_THRESHOLD_MS
             /\ now < recording_start + INITIAL_SILENCE_GRACE_PERIOD
             /\ Tick(INITIAL_SILENCE_GRACE_PERIOD)
          \/ /\ tts_playing
             /\ (Len(audio_chunks) + 1) * VAD_CHUNK_DURATION_MS >= TTS_CHECK_MIN_MS
             /\ now < tts_start_time + TTS_GRACE
             /\ Tick(TTS_GRACE)
    \/ /\ pc = "branch" /\ audio_queue = <<>>
       /\ Spoken = Len(script) /\ tool = "idle"
       /\ tts_playing => Len(audio_chunks) * VAD_CHUNK_DURATION_MS <= TTS_CHECK_MIN_MS
       /\ AudioCallback(IF tts_playing \/ ~speech_detected
                        THEN (IF Audible THEN PlaybackFrame ELSE SpeechFrame)
                        ELSE (IF Audible THEN PlaybackPause ELSE QuietFrame))
    \/ LoopHead
    \/ LoopDequeue
    \/ LoopBranch({"ok"})
    \/ \E r \in {HEARD_STOP, HEARD_HELLO} : LoopTtsCheck(r)
    \/ LoopTtsSleep({"ok"})
    \/ LoopUtterance(HEARD_SAM, {"ok"})
    \/ /\ audio_chunks = <<>> /\ audio_queue = <<>>
       /\ TaskStep({"stream", "error", "portaudio"})
    \/ SpeakStep

SpecAfterPlay == InitWith({<<SAY_DONE>>}) /\ [][NextAfterPlay]_vars

\* ------------------------------------------------------------------------
\* The silence timeout
\* ------------------------------------------------------------------------

\* The session of NextSession, in which the silence timeout may also pass
\* while the notice of a failed injection is being played.
NextTimeout ==
    \/ NextSession
    \/ /\ pc = "branch" /\ tts_playing /\ is_active /\ ~TimedOut
       /\ Audible
       /\ Tick(silence_timeout + 1)

SpecTimeout == InitWith({<<>>}) /\ [][NextTimeout]_vars

\* ------------------------------------------------------------------------
\* Detector failures
\* ------------------------------------------------------------------------

\* Listening and then a playback in one run, the detector failing on some
\* frames of either: the user is heard until the speak call is made.
NextDetector ==
    \/ appended = 0 /\ tool = "idle" /\ NextListen
    \/ NextBuffer

SpecDetector == InitWith({<<SAY_DONE>>}) /\ [][NextDetector]_vars

\* ------------------------------------------------------------------------
\* Transcription failures
\* ------------------------------------------------------------------------

\* The session of NextSession, in which the transcription service may also
\* fail on the interrupt-check buffer: transcribe_audio_sync returns None,
\* which the loop tests as it tests an empty text.
NextTranscribe ==
    \/ NextSession
    \/ LoopTtsCheck(<<>>)

SpecTranscribe == InitWith({<<>>}) /\ [][NextTranscribe]_vars

\* ------------------------------------------------------------------------
\* The pending-speech queue under a failing synthesis
\* ------------------------------------------------------------------------

\* The steps of the loop thread when nobody speaks to the microphone.
LoopQuiet ==
    \/ LoopHead
    \/ LoopDequeue
    \/ LoopBranch({"ok"})

\* A step of a playback task other than a further turn of the chunk loop.
TaskAdvance ==
    /\ TaskStep({"stream", "error", "portaudio"})
    /\ \A k \in 1..Len(tasks) : tasks'[k].pc # tasks[k].pc \/ tasks[k].pc # "poll"

\* Speak calls while the loop runs, with a synthesis that works or not and
\* an output stream that opens or not; nobody speaks to the microphone.
NextQueue ==
    \/ LoopQuiet
    \/ TaskStep({"stream", "error", "portaudio"})
    \/ SpeakStep

\* The loop thread and the playback threads are threads of the operating
\* system: the loop's waits are bounded (the queue reads of lines 141 and
\* 215 time out), and every request of a playback has a timeout, so that a
\* playback task exits.
FairQueue == WF_vars(LoopQuiet) /\ WF_vars(TaskAdvance)

SpecRetry == InitWith({<<SAY_DONE, SAY_STOP>>}) /\ [][NextQueue]_vars /\ FairQueue

\* The steps of the loop thread during playbacks the user may cut short.
LoopPlaying ==
    \/ LoopQuiet
    \/ \E r \in {HEARD_SKIP, HEARD_STOP} : LoopTtsCheck(r)
    \/ LoopTtsSleep({"ok"})

\* The steps of the playback tasks and of the speak calls between the
\* interrupt checks of the loop.
BetweenChecks == audio_chunks = <<>> /\ audio_queue = <<>>

TaskBetweenChecks ==
    /\ BetweenChecks
    /\ TaskStep({"stream", "error"})

\* The user speaks over the first playback while it is audible, once the
\* other texts are pending, for as long as an interrupt check takes: nine
\* frames, the grace period of the check, and a tenth frame.
UserSpeaks ==
    \/ /\ pc = "branch" /\ tts_playing
       /\ (Len(audio_chunks) + 1) * VAD_CHUNK_DURATION_MS >= TTS_CHECK_MIN_MS
       /\ now < tts_start_time + TTS_GRACE
       /\ Tick(TTS_GRACE)
    \/ /\ pc = "branch" /\ tts_playing /\ audio_queue = <<>>
       /\ tts_start_time > 0
       /\ Len(tasks) = 1 /\ Spoken = Len(script) /\ tool = "idle"
       /\ \/ (Len(audio_chunks) + 1) * VAD_CHUNK_DURATION_MS < TTS_CHECK_MIN_MS
          \/ /\ (Len(audio_chunks) + 1) * VAD_CHUNK_DURATION_MS = TTS_CHECK_MIN_MS
             /\ now >= tts_start_time + TTS_GRACE
       /\ AudioCallback(SpeechFrame)

\* Speak calls while the loop runs, one of them with an empty text, and a
\* user who says "skip" or "stop" during the first playback.
NextPending ==
    \/ UserSpeaks
    \/ LoopPlaying
    \/ TaskBetweenChecks
    \/ BetweenChecks /\ SpeakStep

\* The fairness of FairQueue, for the steps of NextPending; and a user who
\* has begun to speak during a playback goes on to the end of the check.
FairPending ==
    /\ WF_vars(LoopPlaying)
    /\ SF_vars(TaskBetweenChecks
               /\ \A k \in 1..Len(tasks) :
                     tasks'[k].pc # tasks[k].pc \/ tasks[k].pc # "poll")
    /\ SF_vars(audio_chunks # <<>> /\ UserSpeaks)

SpecPending ==
    InitWith({<<SAY_DONE, SAY_STOP>>, <<SAY_DONE, <<>>, SAY_STOP>>})
        /\ [][NextPending]_vars /\ FairPending

\* ------------------------------------------------------------------------
\* Waiting for the wake word
\* ------------------------------------------------------------------------

\* The quiet frames of a long wait are told apart by their peaks, which go
\* round the values below QuietCycle.
QuietCycle == 7

NextQuiet ==
    Frame("quiet", IF audio_chunks = <<>> THEN 0
                   ELSE (audio_chunks[Len(audio_chunks)].amp + 1) % QuietCycle)

\* A long silence before the wake word, one short utterance that activates
\* the session, and a long silence of the active session that ends in the
\* silence timeout.
NextWait ==
    \/ /\ pc = "branch" /\ speech_detected
       /\ silence_duration_ms + VAD_CHUNK_DURATION_MS >= SILENCE_THRESHOLD_MS
       /\ now < recording_start + INITIAL_SILENCE_GRACE_PERIOD
       /\ Tick(INITIAL_SILENCE_GRACE_PERIOD)
    \/ /\ pc = "branch" /\ ~speech_detected /\ is_active
       /\ Len(audio_chunks) > InactiveWindow
       /\ Tick(silence_timeout + 1)
    \/ /\ pc = "branch" /\ audio_queue = <<>>
       /\ speech_detected =>
             \/ silence_duration_ms + VAD_CHUNK_DURATION_MS < SILENCE_THRESHOLD_MS
             \/ now >= recording_start + INITIAL_SILENCE_GRACE_PERIOD
       /\ AudioCallbackWithin(NextQuiet, MaxLong)
    \/ /\ pc = "branch" /\ audio_queue = <<>>
       /\ ~speech_detected /\ ~is_active /\ ticks = 0
       /\ Len(audio_chunks) \in {0, 1, InactiveWindow}
       /\ AudioCallbackWithin(SpeechFrame, MaxLong)
    \/ LoopHead
    \/ LoopDequeue
    \/ LoopBranch({"ok"})
    \/ LoopUtterance(HEARD_SAM, {"ok"})

SpecWait == InitWith({<<>>}) /\ [][NextWait]_vars

\* ------------------------------------------------------------------------
\* The extreme sample
\* ------------------------------------------------------------------------

\* A frame of speech whose loudest sample is the most negative value of the
\* 16-bit range.
ExtremeFrame == Frame("speech", INT16_MIN)

\* The run of NextEnergy with one frame of speech at full negative scale:
\* it is the onset of the utterance, and the first frame of the
\* interrupt-check buffer; the other frames are soft or quiet, and the
\* last frame of the interrupt-check buffer may be at the threshold.
NextExtreme ==
    \/ /\ pc = "branch" /\ ~tts_playing /\ speech_detected
       /\ silence_duration_ms + VAD_CHUNK_DURATION_MS >= SILENCE_THRESHOLD_MS
       /\ now < recording_start + INITIAL_SILENCE_GRACE_PERIOD
       /\ Tick(INITIAL_SILENCE_GRACE_PERIOD)
    \/ /\ pc = "branch" /\ tts_playing
       /\ now < tts_start_time + TTS_GRACE
       /\ Tick(TTS_GRACE)
    \/ /\ pc = "branch" /\ audio_queue = <<>> /\ ~tts_playing
       /\ Spoken = 0 /\ tool = "idle"
       /\ \E f \in {ExtremeFrame, SoftFrame, QuietFrame} :
             /\ speech_detected \/ f.vad = "speech"
             /\ f = ExtremeFrame => ~speech_detected
             /\ Burst(Append(audio_chunks, f)) <= MaxBurst
             /\ AudioCallback(f)
    \/ /\ pc = "branch" /\ audio_queue = <<>> /\ tts_playing
       /\ Len(audio_chunks) * VAD_CHUNK_DURATION_MS < TTS_CHECK_MIN_MS
       /\ \E f \in {ExtremeFrame, SoftFrame, ThresholdFrame} :
             /\ f = ExtremeFrame => audio_chunks = <<>>
             /\ f = ThresholdFrame =>
                   (Len(audio_chunks) + 1) * VAD_CHUNK_DURATION_MS = TTS_CHECK_MIN_MS
             /\ AudioCallback(f)
    \/ LoopHead
    \/ LoopDequeue
    \/ LoopBranch({"ok"})
    \/ LoopTtsCheck(HEARD_STOP)
    \/ LoopTtsSleep({"ok"})
    \/ LoopUtterance(HEARD_SAM, {"ok"})
    \/ TaskStep({"stream"})
    \/ ~speech_detected /\ audio_chunks = <<>> /\ audio_queue = <<>> /\ SpeakStep

SpecExtreme == InitWith({<<SAY_DONE>>}) /\ [][NextExtreme]_vars

\* ------------------------------------------------------------------------
\* Start calls that overlap
\* ------------------------------------------------------------------------

\* samantha_start lines 44-56, for a call made while another start call is
\* suspended at one of its awaits: the same test, and the marker already
\* holds this process's pid, which is_samantha_running_elsewhere does not
\* count as another process (detection.py lines 158-162).
Start2Begin ==
    /\ tool = "idle"
    /\ start # "none"
    /\ start2 = "none"
    /\ IF ThreadAlive \/ RunningElsewhere
       THEN /\ result' = "already_running"
            /\ UNCHANGED << active_file, start2 >>
       ELSE /\ active_file' = "own"
            /\ start2' = "kokoro"
            /\ UNCHANGED result
    /\ UNCHANGED << clockVars, unreferenced, at_stop, thread_ready, start, pc,
                    sessionVars, accVars, is_skip_only, audio_queue,
                    playbackVars, stateVars, tasks, tool, pending, script,
                    historyVars, iter >>

\* samantha_start line 58, for the second call.
Start2Kokoro(kokoro_ok) ==
    /\ tool = "idle"
    /\ start2 = "kokoro"
    /\ start2' = IF kokoro_ok THEN "whisper" ELSE "whisper_only"
    /\ UNCHANGED << clockVars, unreferenced, at_stop, startVars, pc,
                    sessionVars, accVars, is_skip_only, audio_queue,
                    playbackVars, stateVars, tasks, tool, pending, script,
                    historyVars, iter >>

\* samantha_start lines 59-71, for the second call.
Start2Launch(whisper_ok) ==
    /\ tool = "idle"
    /\ start2 \in {"whisper", "whisper_only"}
    /\ start2' = "none"
    /\ LaunchFrom(start2, whisper_ok)
    /\ UNCHANGED << clockVars, start, at_stop, is_skip_only, playbackVars,
                    audio_stream, stream_open, tasks, pending, script,
                    historyVars, iter >>

\* One step of a second start call.
Start2Step ==
    \/ Start2Begin
    \/ \E kokoro_ok \in BOOLEAN : Start2Kokoro(kokoro_ok)
    \/ \E whisper_ok \in BOOLEAN : Start2Launch(whisper_ok)

\* loop.py line 102: a loop thread that is referred to no longer reads the
\* stop flag set, and exits.  Of such a thread the model keeps that it is
\* alive, nothing of what it does to the recording and to the playbacks.
UnreferencedExit ==
    /\ unreferenced > 0
    /\ StopRequested
    /\ unreferenced' = unreferenced - 1
    /\ UNCHANGED << clockVars, start2, at_stop, startVars, pc, sessionVars,
                    accVars, is_skip_only, audio_queue, playbackVars,
                    stateVars, tasks, toolVars, historyVars, iter >>

\* Start and stop calls in any order, a second start call made while the
\* first is suspended, a stream that opens or not, services that run or
\* not, a start that is ready in time or not, a loop thread that outlives
\* the join of a stop call or not.
NextOverlap ==
    \/ StartStep
    \/ Start2Step
    \/ StopStep
    \/ \E opened \in BOOLEAN : LoopOpen(opened)
    \/ LoopHead
    \/ LoopDequeue
    \/ LoopBranch({"ok"})
    \/ UnreferencedExit

SpecOverlap == InitIdle({<<>>}, {"absent"}) /\ [][NextOverlap]_vars

\* ------------------------------------------------------------------------
\* The loop without a voice-activity detector
\* ------------------------------------------------------------------------

\* Frames of a process without webrtcvad: one the user speaks in, and a
\* silent one.
UndetectedSpeech == Frame("none", LOUD)

UndetectedSilence == Frame("none", 0)

\* The recording so far ends in silence.
SilenceBegun == audio_chunks # <<>> /\ audio_chunks[Len(audio_chunks)].amp = 0

\* The user says something and falls silent, for longer than an utterance
\* takes to end, before and during a playback, and time passes; no frame
\* has a detector's decision.
NextNoVad ==
    \/ /\ pc = "branch" /\ ~tts_playing
       /\ speech_detected /\ Len(audio_chunks) \in {1, MaxChunks}
       /\ now < recording_start + INITIAL_SILENCE_GRACE_PERIOD
       /\ Tick(INITIAL_SILENCE_GRACE_PERIOD)
    \/ /\ pc = "branch" /\ tts_playing /\ tts_start_time > 0
       /\ now < tts_start_time + TTS_GRACE
       /\ Tick(TTS_GRACE)
    \/ /\ pc = "branch"
       /\ ~SilenceBegun \/ tts_playing
       /\ AudioCallback(UndetectedSpeech)
    \/ /\ pc = "branch"
       /\ AudioCallback(UndetectedSilence)
    \/ LoopHead
    \/ LoopDequeue
    \/ LoopBranch({"ok"})
    \/ TaskStep({"stream"})
    \/ SpeakStep

SpecNoVad == InitWith({<<SAY_DONE>>}) /\ [][NextNoVad]_vars

\* ------------------------------------------------------------------------
\* The cancellation flag between playbacks
\* ------------------------------------------------------------------------

\* The user speaks over the first playback for as long as an interrupt
\* check takes.
SpeaksOverFirst ==
    \/ /\ pc = "branch" /\ tts_playing
       /\ (Len(audio_chunks) + 1) * VAD_CHUNK_DURATION_MS >= TTS_CHECK_MIN_MS
       /\ now < tts_start_time + TTS_GRACE
       /\ Tick(TTS_GRACE)
    \/ /\ pc = "branch" /\ tts_playing /\ audio_queue = <<>>
       /\ tts_start_time > 0
       /\ Len(tasks) = 1 /\ tool = "idle"
       /\ \/ (Len(audio_chunks) + 1) * VAD_CHUNK_DURATION_MS < TTS_CHECK_MIN_MS
          \/ /\ (Len(audio_chunks) + 1) * VAD_CHUNK_DURATION_MS = TTS_CHECK_MIN_MS
             /\ now >= tts_start_time + TTS_GRACE
       /\ AudioCallback(SpeechFrame)

\* Two speak calls and a stop call; the user says "stop" or "skip" over the
\* first playback, which may end while the interrupt check is transcribed;
\* the output stream opens or not.
NextStale ==
    \/ SpeaksOverFirst
    \/ LoopPlaying
    \/ /\ BetweenChecks \/ pc = "tts_check"
       /\ TaskStep({"stream", "portaudio"})
    \/ BetweenChecks /\ SpeakStep
    \/ BetweenChecks /\ StopStep

SpecStale ==
    InitWith({<<SAY_DONE, SAY_STOP>>, <<SAY_SKIP, SAY_DONE>>}) /\ [][NextStale]_vars

\* ------------------------------------------------------------------------
\* The interrupt-check buffer
\* ------------------------------------------------------------------------

\* Every frame of the buffer was taken for speech by the TTS detector.
SpeechOnly == \A i \in 1..Len(audio_chunks) : audio_chunks[i].vad = "speech"

\* The buffer that is about to be transcribed holds 300 ms of speech, and
\* the playback it belongs to was launched 2.0 s ago or earlier.
CheckIsDue ==
    /\ Len(audio_chunks) * VAD_CHUNK_DURATION_MS >= TTS_CHECK_MIN_MS
    /\ tasks # <<>>
    /\ now - tasks[Current].started >= TTS_GRACE

\* C11: during playback only frames the TTS detector takes for speech are
\* in the interrupt-check buffer; the buffer is transcribed only when it
\* holds at least 300 ms of speech and the playback was started at least
\* 2.0 s ago; and when the iteration that transcribed it is over, the
\* buffer is empty, whatever the outcome.
C11_BufferEmptiedWhateverTheOutcome ==
    /\ tts_playing => SpeechOnly
    /\ pc = "tts_check" => CheckIsDue
    /\ pc = "head" /\ "tts_transcribe" \in iter.did => audio_chunks = <<>>

\* The first two parts of C11, which hold.
C11_SpeechOnlyAndDue ==
    /\ tts_playing => SpeechOnly
    /\ pc = "tts_check" => CheckIsDue

\* ------------------------------------------------------------------------
\* The echo filter in the control loop
\* ------------------------------------------------------------------------

\* The utterance the iteration transcribed resembles a text whose playback
\* ended less than 10 seconds ago.
EchoesRecentPlayback ==
    \E k \in 1..Len(tasks) :
        /\ tasks[k].ended > 0
        /\ now - tasks[k].ended < ECHO_WINDOW
        /\ iter.text # <<>>
        /\ Resembles(iter.text, tasks[k].text)

\* C12: an utterance completed less than 10 seconds after a playback
\* finished, whose transcription is part of the spoken text or shares more
\* than half of its words with it, is discarded as echo: no session
\* transition, no refresh of the activity timer, no injection.
C12_EchoDiscarded ==
    "transcribe" \in iter.did /\ EchoesRecentPlayback =>
        /\ iter.heard = <<>>
        /\ iter.injected = <<>>
        /\ iter.did \cap {"transition", "refresh"} = {}

\* An active session forwards the echo of the notice just played.
C12_EchoForwarded ==
    /\ "transcribe" \in iter.did
    /\ EchoesRecentPlayback
    /\ iter.injected # <<>>

\* ------------------------------------------------------------------------
\* The end of an utterance
\* ------------------------------------------------------------------------

\* C13: the accumulator never completes an utterance while less than the
\* minimum recording duration (0.3 s) has elapsed since speech onset,
\* however many non-speech frames have been counted.
C13_NoCompletionBeforeMinDuration ==
    pc = "utterance" => now - recording_start >= MIN_RECORDING_DURATION

\* A recording younger than the minimum duration whose counted silence has
\* passed the threshold, and which goes on.
C13_SilenceCountedTooEarly ==
    /\ pc = "head"
    /\ speech_detected
    /\ "listen" \in iter.did
    /\ silence_duration_ms >= SILENCE_THRESHOLD_MS
    /\ now - recording_start < MIN_RECORDING_DURATION

\* The silence that ends the recording: the frames after the last one the
\* listening detector took for speech.
EndingSilence ==
    {i \in 1..Len(audio_chunks) :
        \A j \in i..Len(audio_chunks) : ~VadListening(audio_chunks[j])}

\* The frames of the ending silence that the stream delivered in the grace
\* period, and after it.
SilenceInGrace ==
    {i \in EndingSilence :
        audio_chunks[i].at < recording_start + INITIAL_SILENCE_GRACE_PERIOD}

SilenceAfterGrace == EndingSilence \ SilenceInGrace

\* C14 as stated: the silence that ends an utterance is accumulated only
\* from frames received after the grace period of 1.0 s has elapsed, so
\* that those frames alone reach the threshold of 1000 ms.
C14_SilenceCountsAfterGraceOnly ==
    pc = "utterance" =>
        Cardinality(SilenceAfterGrace) * VAD_CHUNK_DURATION_MS >= SILENCE_THRESHOLD_MS

\* C14, amended: non-speech frames received during the grace period do
\* count toward the threshold, but no utterance is completed before the
\* grace period has elapsed: an utterance ends on a non-speech frame that
\* brings the counted silence to 1000 ms or more and is processed 1.0 s or
\* more after recording start.
C14_NoCompletionInGrace ==
    pc = "utterance" =>
        /\ now - recording_start >= INITIAL_SILENCE_GRACE_PERIOD
        /\ silence_duration_ms >= SILENCE_THRESHOLD_MS
        /\ silence_duration_ms >= Cardinality(EndingSilence) * VAD_CHUNK_DURATION_MS

\* An utterance completed on silence most of which was received in the
\* grace period.
C14_CompletedOnEarlySilence ==
    /\ pc = "utterance"
    /\ Cardinality(SilenceInGrace) * VAD_CHUNK_DURATION_MS
           > SILENCE_THRESHOLD_MS - VAD_CHUNK_DURATION_MS - VAD_CHUNK_DURATION_MS
    /\ Cardinality(SilenceAfterGrace) = 1

\* ------------------------------------------------------------------------
\* C15
\* ------------------------------------------------------------------------

\* The loop's step raised an exception in this step.
Raises == "exception" \in iter'.did /\ "exception" \notin iter.did

\* The loop thread ends in this step.
Terminates == pc' = "exited" /\ pc # "exited"

\* C15: with the stream open, a step of the loop that raises an exception
\* leaves the loop at the top of its next iteration with the stream still
\* published as it was, and the loop thread ends only in a step that tests
\* the stop flag and finds it set.
C15_ExceptionCaughtExitOnlyOnStop ==
    [][/\ Raises => pc' = "head" /\ stream_open' = stream_open
       /\ Terminates => pc = "head" /\ thread_stop_flag]_vars

\* An iteration raised, no stop was asked for, and the loop is at the top
\* of the next iteration.
C15_RaisedAndWentOn ==
    /\ "exception" \in iter.did
    /\ pc = "head"
    /\ ~thread_stop_flag
    /\ stream_open

\* ------------------------------------------------------------------------
\* C16
\* ------------------------------------------------------------------------

\* The loop thread is in the speaking branch.
InTtsBranch == pc \in {"branch", "tts_check", "tts_sleep"} /\ tts_playing

LaunchedIds == {launched[i] : i \in 1..Len(launched)}

\* No text that was pending when stop was called has been launched.
NoPendingTextLaunched == LaunchedIds \cap at_stop.ids = {}

\* The queue was empty when the stop call returned.
EmptyWhenStopReturned == at_stop.left = <<>>

\* C17: no text pending in the queue when stop is called is launched for
\* playback afterwards, and the queue is empty when stop returns.
C17_StopDiscardsPending ==
    /\ NoPendingTextLaunched
    /\ EmptyWhenStopReturned

\* ------------------------------------------------------------------------
\* C18
\* ------------------------------------------------------------------------

\* A start call returns success in this step.
StartSucceeds == tool = "start_wait" /\ tool' = "idle"

\* A start call that was not ready in time returns in this step.
StartGivesUp == tool = "start_fail" /\ tool' = "idle"

\* The loop signals readiness in this step.
SignalsReady == thread_ready' = "set" /\ thread_ready # "set"

\* The loop reads a frame of the stream in this step.
ProcessesFrame ==
    /\ pc = "branch"
    /\ audio_queue # <<>>
    /\ audio_queue' = Tail(audio_queue)

\* The last call was a start that was not ready in time, and the flag it
\* set still stands.
StartHasFailed == result = "not_ready" /\ thread_stop_flag

\* Success only after readiness, readiness only with the stream open, and
\* a start that is not ready fails, sets the stop flag and removes the
\* marker.
C18_ReadyBeforeSuccess ==
    [][/\ StartSucceeds => thread_ready = "set" /\ result' = "started"
       /\ SignalsReady => stream_open' /\ audio_stream'
       /\ StartGivesUp =>
            /\ result' = "not_ready"
            /\ thread_stop_flag'
            /\ active_file' = "absent"]_vars

\* C18: start succeeds only after the loop signalled readiness, which it
\* does only with the stream open; a start that is not ready in time fails,
\* sets the stop flag and removes the marker, and the loop reads no frame
\* after that.
C18_NoFrameAfterFailedStart ==
    [][/\ StartSucceeds => thread_ready = "set" /\ result' = "started"
       /\ SignalsReady => stream_open' /\ audio_stream'
       /\ StartGivesUp =>
            /\ result' = "not_ready"
            /\ thread_stop_flag'
            /\ active_file' = "absent"
       /\ StartHasFailed => ~ProcessesFrame]_vars

\* ------------------------------------------------------------------------
\* C19
\* ------------------------------------------------------------------------

\* The loop thread has been started and has not ended.
LoopThreadLives ==
    pc \in {"open", "head", "dequeue", "branch", "tts_check", "tts_sleep", "utterance"}

\* A speak call begins in this step, with the text it was given.
SpeakCalled == tool = "idle" /\ tool' \in {"speak_append", "speaking"}
SpokenText == script[Spoken + 1]

\* The playback the speak call made itself, and the entry of the queue it
\* would make.
DirectPlayback == tasks'[Len(tasks')]
SpokenEntry == Entry(appended', SpokenText)

\* C19: a speak call made while the loop thread is alive starts no
\* playback and appends its text once, at the tail of the queue; a call
\* made otherwise plays the text itself, returns when the playback has
\* ended, leaves the queue as it was from call to return, and reports
\* failure when the synthesis failed.
C19_SpeakQueuesOrPlays ==
    [][/\ SpeakCalled /\ LoopThreadLives =>
            /\ tool' = "speak_append"
            /\ pending' = SpokenEntry
            /\ tasks' = tasks
       /\ tool = "speak_append" /\ tool' # tool =>
            /\ tool' = "idle"
            /\ tts_text_queue' = Append(tts_text_queue, pending)
            /\ tasks' = tasks
            /\ \A i \in 1..Len(tts_text_queue) : tts_text_queue[i].id # pending.id
            /\ pending.id \notin {launched[i] : i \in 1..Len(launched)}
       /\ SpeakCalled /\ ~LoopThreadLives =>
            /\ tool' = "speaking"
            /\ tasks' = Append(tasks, DirectPlayback)
            /\ DirectPlayback.kind = "direct"
            /\ DirectPlayback.text = SpokenText
            /\ tts_text_queue' = tts_text_queue
       /\ tool = "speaking" =>
            /\ tts_text_queue' = tts_text_queue
            /\ tool' # tool =>
                 /\ tool' = "idle"
                 /\ DirectPlayback.kind = "direct"
                 /\ DirectPlayback.pc = "done"
                 /\ ~DirectPlayback.ok => result' = "tts_failed"
                 /\ DirectPlayback.ok => result' = "spoke"]_vars

\* One speak call was queued and launched by the loop, and a later one,
\* made after the loop ended, played the text itself and failed.
C19_QueuedThenPlayedDirectly ==
    /\ launched = <<1>>
    /\ Len(tasks) = 2
    /\ tasks[2].kind = "direct"
    /\ tasks[2].pc = "done"
    /\ ~tasks[2].ok
    /\ result = "tts_failed"

\* ------------------------------------------------------------------------
\* C20
\* ------------------------------------------------------------------------

\* A start call goes ahead in this step, or is refused in this step.
StartGoesAhead == start = "none" /\ start' = "kokoro"
StartRefused == result' = "already_running" /\ result # "already_running"

\* What a refused start leaves alone: the loop thread, the stop flag, the
\* readiness event and the marker.
NothingStarted == UNCHANGED << pc, thread_stop_flag, thread_ready, active_file, start >>

\* C20 as stated: a start call made while the loop thread is alive or the
\* marker names another live process does not go ahead, and a refused
\* start changes nothing.
C20_RefusedWhileAnyLiveProcess ==
    [][/\ LoopThreadLives \/ active_file \in {"live", "foreign"} => ~StartGoesAhead
       /\ StartRefused => NothingStarted]_vars

\* C20, amended: a start call made while the loop thread is alive or the
\* marker names another live process that this process may signal does
\* not go ahead; it is refused only then, and a refused start changes
\* neither the loop thread nor the stop flag, the readiness event or the
\* marker.
C20_RefusedWhileRunning ==
    [][/\ LoopThreadLives \/ active_file = "live" => ~StartGoesAhead
       /\ StartRefused =>
            /\ LoopThreadLives \/ active_file = "live"
            /\ NothingStarted]_vars

\* A start call was refused while the loop thread of this process runs.
C20_RefusedWithLoopRunning ==
    /\ result = "already_running"
    /\ LoopThreadLives
    /\ active_file = "own"
    /\ ~thread_stop_flag

\* ------------------------------------------------------------------------
\* One playback at a time, and cancellation
\* ------------------------------------------------------------------------

\* Task k is inside speak_tts_sync: it has been launched and has not yet
\* returned to the finally block of tts_thread_func (or to the speak call).
Playing(k) ==
    tasks[k].pc \in {"start", "reset", "poll", "close", "close_fallback", "fallback"}

\* The playback tasks that have not set their completion event yet.
Unfinished == {k \in 1..Len(tasks) : tasks[k].pc # "done"}

\* C1: at most one playback task is inside speak_tts_sync at any time (the
\* loop launches the next pending text only after the playback launched
\* before it has returned), whatever the interleaving of the loop, the
\* playback tasks and the speak calls, and also after a skip or an
\* interrupt.
C1_OnePlaybackAtATime ==
    Cardinality({k \in 1..Len(tasks) : Playing(k)}) <= 1

\* The loop launched the second text after a skip, while the playback of
\* the first is still in its chunk loop.
C1_LaunchedAfterSkipWhileFirstPlays ==
    /\ Len(tasks) = 2
    /\ tasks[1].pc = "poll"
    /\ tasks[1].cancel
    /\ Playing(2)
    /\ is_skip_only

\* C2: a streaming playback whose cancellation the loop has requested
\* writes no further chunk: the request is not lost before the task polls
\* the flag.
C2_CancellationNeverLost ==
    \A k \in 1..Len(tasks) : tasks[k].pc = "poll" => ~tasks[k].missed

\* The cancellation flag was reset by the playback launched next, before
\* the cancelled playback polled it.
C2_ResetByNextPlayback ==
    /\ Len(tasks) = 2
    /\ tasks[1].pc = "poll"
    /\ tasks[1].cancel
    /\ ~tasks[1].missed
    /\ tasks[2].pc = "poll"
    /\ ~tts_interrupt

\* ------------------------------------------------------------------------
\* Interrupt and skip
\* ------------------------------------------------------------------------

\* The ids of the texts pending in the queue.
QueueIds == {tts_text_queue[i].id : i \in 1..Len(tts_text_queue)}

\* The step of the loop that finds an active interrupt word in the
\* transcription taken during playback (a skip word may be there too).
InterruptFound ==
    /\ pc = "tts_check"
    /\ pc' = "tts_sleep"
    /\ "interrupt" \in iter'.did

\* The step of the loop that plays the chime of an interrupt or a skip.
ChimeStep == pc = "tts_sleep" /\ pc' # "tts_sleep"

SkipHeard ==
    /\ pc = "tts_check"
    /\ pc' \in {"tts_sleep", "head"}
    /\ LET words == Range(Split(iter'.heard))
       IN  /\ \E k \in 1..Len(SKIP_WORDS) : SKIP_WORDS[k] \in words
           /\ \A k \in 1..Len(INTERRUPT_WORDS) : INTERRUPT_WORDS[k] \notin words
    /\ ~AnyContained(Lower(tasks[Current].text), SKIP_WORDS)

\* The loop takes a text off the queue, some time after a skip.
DequeueAfterSkip ==
    /\ pc = "dequeue"
    /\ pc' = "branch"
    /\ is_skip_only
    /\ tts_text_queue' # tts_text_queue

\* C4: when the transcription taken during playback contains a skip word
\* and no interrupt word, and the text being spoken contains no skip word,
\* cancellation of the current item is requested and the pending-speech
\* queue is left as it is; the chime played is the skip chime; and the
\* text at the head of the queue is the next one launched for playback.
C4_SkipKeepsQueue ==
    [][/\ SkipHeard =>
            /\ pc' = "tts_sleep"
            /\ is_skip_only'
            /\ tts_interrupt'
            /\ tts_text_queue' = tts_text_queue
       /\ ChimeStep /\ is_skip_only => iter'.sounds = <<"skip">>
       /\ DequeueAfterSkip =>
            launched' = Append(launched, Head(tts_text_queue).id)]_vars

\* "skip" was heard while "all done" played, and the loop did nothing:
\* a speak call had queued "skip it" in the meantime.
C4_SkipIgnored ==
    /\ pc = "head"
    /\ "tts_transcribe" \in iter.did
    /\ "skip" \notin iter.did
    /\ iter.heard = HEARD_SKIP
    /\ tasks[Current].text = SAY_DONE
    /\ last_tts_text = SAY_SKIP

\* After a skip the loop took the empty text at the head of the queue and
\* launched nothing; the text behind it is the next one launched.
C4_EmptyHeadDropped ==
    /\ is_skip_only
    /\ launched = <<1, 3>>
    /\ tts_text_queue = <<>>
    /\ script[2] = <<>>

\* ------------------------------------------------------------------------
\* Order of the playbacks
\* ------------------------------------------------------------------------

\* The queue changes only at its ends: a text is appended at the tail, the
\* head is taken, or the queue is cleared.
QueueStep ==
    \/ tts_text_queue' = tts_text_queue
    \/ tts_text_queue' = <<>>
    \/ tts_text_queue # <<>> /\ tts_text_queue' = Tail(tts_text_queue)
    \/ /\ Len(tts_text_queue') = Len(tts_text_queue) + 1
       /\ SubSeq(tts_text_queue', 1, Len(tts_text_queue)) = tts_text_queue
       /\ tts_text_queue'[Len(tts_text_queue')].id \notin QueueIds \cup LaunchedIds

\* A launch takes the head of the queue: the pending text appended first.
LaunchStep ==
    launched' # launched =>
        /\ tts_text_queue # <<>>
        /\ launched' = Append(launched, Head(tts_text_queue).id)
        /\ tts_text_queue' = Tail(tts_text_queue)

\* No text has been launched twice, and no launched text is still pending.
LaunchedOnce ==
    /\ \A i, j \in 1..Len(launched) : launched[i] = launched[j] => i = j
    /\ LaunchedIds \cap QueueIds = {}

\* C5: texts are launched in the order in which they were appended to the
\* queue, for every interleaving of the speak calls and the appends of
\* inject_into_app with the loop: the text launched is always the pending
\* text appended first, and no text is launched twice.
C5_LaunchedInAppendOrder ==
    [][QueueStep /\ LaunchStep /\ LaunchedOnce']_vars

\* The text of a speak call and the notice of a failed injection were
\* both pending, the notice first, and were launched in that order.
C5_NoticeThenSpokenText ==
    /\ Len(launched) = 2
    /\ tasks[1].text = APOLOGY
    /\ tasks[2].text = SAY_DONE
    /\ launched[1] > launched[2]

\* ------------------------------------------------------------------------
\* Active interrupt words
\* ------------------------------------------------------------------------

\* The loop transcribes the interrupt-check buffer while the playback
\* launched last is in progress and has recorded its text.
CheckDuringPlayback ==
    /\ pc = "tts_check"
    /\ pc' \in {"tts_sleep", "head"}
    /\ tasks[Current].pc \in {"reset", "poll"}

\* The transcription holds interrupt word k once, and no other interrupt
\* word.
HeardOnce(words, k) ==
    /\ Count(words, INTERRUPT_WORDS[k]) = 1
    /\ \A j \in 1..Len(INTERRUPT_WORDS) : j # k => Count(words, INTERRUPT_WORDS[j]) = 0

\* C6: while the playback of a text T is in progress, one occurrence of an
\* interrupt word in the transcription triggers an interrupt exactly when
\* the word is not a substring of lower-cased T, whatever the speak calls
\* made while T plays.
C6_ActiveWordsFollowSpokenText ==
    [][CheckDuringPlayback =>
         \A k \in 1..Len(INTERRUPT_WORDS) :
            HeardOnce(Split(iter'.heard), k) =>
               ("interrupt" \in iter'.did
                   <=> ~Contains(Lower(tasks[Current].text), INTERRUPT_WORDS[k]))]_vars

\* "Stop." was heard while "all done" played and the loop did not
\* interrupt: a speak call had queued "I'll stop here" in the meantime.
C6_StopIgnored ==
    /\ pc = "head"
    /\ "tts_transcribe" \in iter.did
    /\ "interrupt" \notin iter.did
    /\ iter.heard = <<"s","t","o","p">>
    /\ tasks[Current].text = SAY_DONE
    /\ tasks[Current].pc = "poll"
    /\ last_tts_text = SAY_STOP

\* "Stop." interrupted the playback of "I'll stop here": a speak call had
\* queued "all done" in the meantime.
C6_EchoedWordInterrupts ==
    /\ pc = "tts_sleep"
    /\ "interrupt" \in iter.did
    /\ iter.heard = <<"s","t","o","p">>
    /\ tasks[Current].text = SAY_STOP
    /\ last_tts_text = SAY_DONE

\* ------------------------------------------------------------------------
\* Session state and dispatch
\* ------------------------------------------------------------------------

\* The session goes from IDLE to ACTIVE, from ACTIVE to IDLE.
Activation == ~is_active /\ is_active'

Deactivation == is_active /\ ~is_active'

\* The step of the loop that handles a completed utterance.
UtteranceStep == pc = "utterance" /\ pc' # "utterance"

\* The step of the loop that runs the timeout check of a listening
\* iteration, more than 30 minutes after the last refresh of the activity
\* timer.
TimeoutStep ==
    /\ pc = "branch"
    /\ pc' # "branch"
    /\ ~tts_playing
    /\ last_tts_time = 0
    /\ now - last_speech_time > silence_timeout

\* The step of the loop that handles a completed utterance whose accepted
\* transcription matches a deactivation phrase.
DeactivationHeard ==
    /\ UtteranceStep
    /\ iter'.heard # <<>>
    /\ check_for_deactivation(iter'.heard)

\* C7 as stated: the session goes from IDLE to ACTIVE only in a listening
\* iteration whose accepted transcription contains a wake word, and from
\* ACTIVE to IDLE only on a deactivation phrase or after more than 30
\* minutes without a refresh of the activity timer.
C7_ActivatedByWakeWordOnly ==
    [][/\ Activation =>
            /\ UtteranceStep
            /\ iter'.heard # <<>>
            /\ check_for_wake_word(iter'.heard)
       /\ Deactivation => DeactivationHeard \/ TimeoutStep]_vars

\* C7, amended: the session goes from IDLE to ACTIVE only in a listening
\* iteration whose accepted transcription contains a trigger word (a word
\* of a wake word that has at least three letters and is no greeting, as a
\* whole word), and from ACTIVE to IDLE only on a deactivation phrase or
\* after more than 30 minutes without a refresh of the activity timer; no
\* other step changes the session state.
C7_ActivatedByTriggerWordOnly ==
    [][/\ Activation =>
            /\ UtteranceStep
            /\ iter'.heard # <<>>
            /\ contains_trigger_word(iter'.heard)
       /\ Deactivation => DeactivationHeard \/ TimeoutStep]_vars

\* "sam hi", which contains no wake word, has activated the session.
C7_ActivatedBySam ==
    /\ pc = "head"
    /\ is_active
    /\ "transition" \in iter.did
    /\ iter.heard = HEARD_SAM
    /\ ~check_for_wake_word(HEARD_SAM)

\* The step forwards a text to inject_into_app.
Forwards == Len(iter'.injected) > Len(iter.injected)

\* The transcription is neither empty nor the blank-audio tag, and the
\* echo filter and the noise filter let it through.
PassedFilters(text) ==
    /\ text # <<>>
    /\ text # BLANK_AUDIO
    /\ ~is_echo(text, last_tts_text, last_tts_time, now)
    /\ ~is_noise(text)

\* C8 as stated: a transcription is forwarded to inject_into_app only if
\* it passed the echo and noise filters and either the session is ACTIVE
\* and the text matches no deactivation phrase, or the session is IDLE
\* and the text contains a wake word.
C8_ForwardedOnWakeWordOnly ==
    [][Forwards =>
         /\ UtteranceStep
         /\ PassedFilters(iter'.text)
         /\ \/ is_active /\ ~check_for_deactivation(iter'.text)
            \/ ~is_active /\ check_for_wake_word(iter'.text)]_vars

\* C8, amended: a transcription is forwarded to inject_into_app only if it
\* passed the echo and noise filters and either the session is ACTIVE and
\* the text matches no deactivation phrase, or the session is IDLE and
\* the text contains a trigger word as a whole word; every other utterance
\* is discarded without an injection.
C8_ForwardedOnTriggerWordOnly ==
    [][Forwards =>
         /\ UtteranceStep
         /\ PassedFilters(iter'.text)
         /\ \/ is_active /\ ~check_for_deactivation(iter'.text)
            \/ ~is_active /\ contains_trigger_word(iter'.text)]_vars

\* "sam hi", heard by an idle session, has been forwarded.
C8_SamForwardedFromIdle ==
    /\ pc = "head"
    /\ iter.injected = <<VoiceMessage(HEARD_SAM)>>
    /\ "transition" \in iter.did

\* The step called inject_into_app once, with the voice-message marker
\* and text c: the call returned, or it raised after the activate chime.
ForwardedOnce(c) ==
    \/ iter'.injected = <<VoiceMessage(c)>>
    \/ /\ iter'.injected = <<>>
       /\ "exception" \in iter'.did
       /\ iter'.sounds = <<"activate">>

\* Text c has no stop phrase, or ends with the first one.
EndsAtStopPhrase(c) ==
    SearchStopPhrase(Lower(c), 0, StopPhrasePatterns) \in {-1, Len(c)}

\* What C9 requires of the iteration that handles transcription text.
ActivatesAndForwards(text) ==
    /\ is_active'
    /\ last_speech_time' = now
    /\ iter'.sounds = <<"activate">>
    /\ LET c == clean_command(text)
       IN  /\ EndsAtStopPhrase(c)
           /\ IF c # <<>> THEN ForwardedOnce(c)
              ELSE iter'.injected = <<>> /\ "exception" \notin iter'.did

\* C9: when the session is IDLE and the accepted transcription of a
\* completed utterance contains a wake word, that iteration sets the
\* session ACTIVE, refreshes the activity timer, plays the activate chime
\* once and forwards clean_command(text) with the voice-message marker
\* once, if and only if it is not empty; the forwarded text ends at the
\* first stop phrase.
C9_ActivationInOneIteration ==
    [][UtteranceStep /\ ~is_active /\ PassedFilters(iter'.text)
          /\ check_for_wake_word(iter'.text)
            => ActivatesAndForwards(iter'.text)]_vars

\* "um hey Sam go that's all ok" activated the session, the activate chime
\* could not be played, and the command was not forwarded.
C9_CommandLostWithChime ==
    /\ pc = "head"
    /\ is_active
    /\ {"transition", "exception"} \subseteq iter.did
    /\ iter.text = HEARD_WAKE
    /\ iter.sounds = <<>>
    /\ iter.injected = <<>>
    /\ clean_command(HEARD_WAKE) # <<>>

\* "hey sammy", which contains the wake word "hey sam", was discarded by
\* an idle session.
C9_WakeWordDiscarded ==
    /\ pc = "head"
    /\ ~is_active
    /\ iter.heard = HEARD_SAMMY
    /\ check_for_wake_word(HEARD_SAMMY)
    /\ iter.sounds = <<>>

\* ------------------------------------------------------------------------
\* The TTS branch and the listening steps
\* ------------------------------------------------------------------------

\* The steps of an iteration that belong to listening: post-TTS cleanup,
\* the timeout check, a frame taken for the accumulator, the
\* transcription of an utterance, a session transition.
ListeningSteps == {"cleanup", "timeout_check", "listen", "transcribe", "transition"}

\* C10: in an iteration that took the TTS branch (the playing flag was set
\* when line 139 tested it) there is no post-TTS cleanup, no timeout
\* check, no frame for the utterance accumulator, no listening
\* transcription, no session transition and no injection.
C10_TtsBranchExcludesListening ==
    [][/\ "tts" \in iter'.did =>
            /\ iter'.did \cap ListeningSteps = {}
            /\ iter'.injected = <<>>
       /\ "tts" \in iter.did /\ pc # "head" =>
            /\ is_active' = is_active
            /\ silence_duration_ms' = silence_duration_ms
            /\ speech_detected' = speech_detected]_vars

\* An iteration of an active session took the TTS branch and transcribed
\* the interrupt-check buffer, the playback having ended in the meantime.
C10_TtsIterationOfActiveSession ==
    /\ pc = "head"
    /\ {"tts", "tts_transcribe"} \subseteq iter.did
    /\ is_active
    /\ ~tts_playing
    /\ last_tts_time > 0
    /\ "interrupt" \notin iter.did

\* ------------------------------------------------------------------------
\* C21
\* ------------------------------------------------------------------------

\* A status call returns.
StatusReturns == samantha_status /\ result' \in {"active", "inactive"}

\* The marker is this process's own or there is none: no other process is
\* involved in what the status call reports.
OwnMarkerOnly == active_file \in {"absent", "own"}

\* C21: a status call reports active exactly when the loop thread of this
\* process is alive (no other process having written the marker): inactive
\* before any start, while a start has not yet launched the loop, after a
\* failed start and after stop has returned, active while the thread lives.
C21_StatusTracksLoop ==
    [][StatusReturns /\ OwnMarkerOnly => (result' = "active" <=> ThreadAlive)]_vars

\* C21: a status call reports active while the start call that wrote the
\* marker still awaits the synthesis service and no loop thread exists.
C21_ActiveBeforeLaunch ==
    /\ result = "active"
    /\ start = "kokoro"
    /\ pc = "none"
    /\ active_file = "own"

\* ------------------------------------------------------------------------
\* C22
\* ------------------------------------------------------------------------

\* The utterance step called inject_into_app and the call found no target.
InjectionFailed == Forwards /\ failed' = failed + 1

\* C22: a forwarding whose injection finds no target appends one notice, a
\* text the loop will speak, to the tail of the pending-speech queue and
\* returns, the iteration ending as after any utterance; a forwarding that
\* succeeds, and an utterance that forwards nothing, leave the queue as it
\* was.
C22_FailedInjectionQueuesOneApology ==
    [][pc = "utterance" =>
          /\ InjectionFailed =>
                /\ Len(tts_text_queue') = Len(tts_text_queue) + 1
                /\ SubSeq(tts_text_queue', 1, Len(tts_text_queue)) = tts_text_queue
                /\ tts_text_queue'[Len(tts_text_queue')].text = APOLOGY
                /\ APOLOGY # <<>>
                /\ pc' = "head"
                /\ "exception" \notin iter'.did
                /\ audio_chunks' = <<>>
          /\ ~InjectionFailed => tts_text_queue' = tts_text_queue]_vars

\* C22: the command of an active session found no target: its notice is the
\* last entry of the queue and the loop is at the top of its next iteration.
C22_ApologyQueuedLoopGoesOn ==
    /\ failed = 1
    /\ pc = "head"
    /\ is_active
    /\ iter.injected # <<>>
    /\ tts_text_queue # <<>>
    /\ tts_text_queue[Len(tts_text_queue)].text = APOLOGY
    /\ ~thread_stop_flag

\* ------------------------------------------------------------------------
\* C23
\* ------------------------------------------------------------------------

\* The number of places of text where w stands as a whole word, between
\* spaces or the ends of the text.
Occurrences(text, w) ==
    Cardinality({i \in 0..Len(text) :
        /\ OccursAt(text, w, i)
        /\ (i = 0 \/ text[i] = " ")
        /\ (i + Len(w) = Len(text) \/ text[i + Len(w) + 1] = " ")})

\* The interrupt words that stand in text as whole words.
InterruptWordsIn(text) ==
    {w \in Range(INTERRUPT_WORDS) : Occurrences(text, w) >= 1}

\* The search for an interrupt word was made and what it returned.
InterruptChecked == "tts_transcribe" \in iter.did
InterruptReturned == "interrupt" \in iter.did

\* C23: a sanitized transcription in which an interrupt word stands as a
\* whole word twice or more is an interrupt whatever the last-spoken text
\* is; one in which no interrupt word stands twice and every interrupt word
\* that stands in it is part of the (lower-cased) last-spoken text is not.
C23_DoubledWordAlwaysInterrupts ==
    InterruptChecked =>
        /\ (\E w \in Range(INTERRUPT_WORDS) : Occurrences(iter.heard, w) >= 2)
              => InterruptReturned
        /\ /\ InterruptWordsIn(iter.heard) # {}
           /\ \A w \in InterruptWordsIn(iter.heard) :
                 /\ Occurrences(iter.heard, w) = 1
                 /\ Contains(Lower(last_tts_text), w)
           => ~InterruptReturned

\* C23: "stop stop" was heard while the assistant said a text with the
\* word stop in it, and it was taken for an interrupt.
C23_StopStopWhileSayingStop ==
    /\ InterruptChecked
    /\ InterruptReturned
    /\ iter.heard = <<"s","t","o","p"," ","s","t","o","p">>
    /\ last_tts_text = <<"I","'","l","l"," ","s","t","o","p"," ","h","e","r","e">>

\* C23: a single "stop" heard while the assistant said that text was not.
C23_SingleStopWhileSayingStop ==
    /\ InterruptChecked
    /\ ~InterruptReturned
    /\ iter.heard = <<"s","t","o","p">>
    /\ last_tts_text = <<"I","'","l","l"," ","s","t","o","p"," ","h","e","r","e">>

\* ------------------------------------------------------------------------
\* C24
\* ------------------------------------------------------------------------

\* The test for echo was made and what it returned.
EchoChecked == iter.did \cap {"echo", "no_echo"} # {}
EchoReturned == "echo" \in iter.did

\* The lower-cased texts the test compares (text_lower and tts_lower).
HeardLower == Strip(Lower(iter.text))
SpokenLower == Strip(Lower(last_tts_text))

\* The distinct words of the transcription and those of them that are
\* words of the spoken text.
HeardWords == Range(Split(HeardLower))
SharedWords == {w \in HeardWords : \E i \in 1..Len(Split(SpokenLower)) : Split(SpokenLower)[i] = w}

\* The age of the last-spoken timestamp, in milliseconds.
EchoAge == now - last_tts_time

C24_SameTextAtTwoAndFifteenSeconds ==
    iter.text = <<"u","p","d","a","t","e","d"," ","t","h","e"," ","c","o","n","f","i","g","u","r","a","t","i","o","n"," ","f","i","l","e">>
    /\ last_tts_text # <<>>
    /\ EchoChecked
    /\ (EchoAge = 2000 => EchoReturned)
    /\ (EchoAge = 15000 => ~EchoReturned)
    /\ EchoAge \in {2000, 15000}

C24_NoEchoAfterFifteenSeconds ==
    C24_SameTextAtTwoAndFifteenSeconds /\ EchoAge = 15000 /\ ~EchoReturned

\* C24: the bounds of the test are met from both sides: echo at exactly
\* 10 s and none a millisecond later; echo by 4 shared words of 5 and none
\* by 2 of 4 or by 2 of 3.
C24_EchoAtTheBounds ==
    /\ EchoChecked
    /\ EchoAge = 10000
    /\ EchoReturned
    /\ Cardinality(HeardWords) = 5
    /\ ~Contains(SpokenLower, HeardLower)

\* ------------------------------------------------------------------------
\* C25
\* ------------------------------------------------------------------------

\* The largest magnitude of the samples of the buffer.
Peak(chunks) ==
    SetMax({0} \cup {IF chunks[i].amp < 0 THEN 0 - chunks[i].amp ELSE chunks[i].amp :
                       i \in 1..Len(chunks)})

\* The buffer that is transcribed in this step, in the listening branch or
\* in the interrupt check, has a peak below the energy threshold.
TranscribesSoftBuffer ==
    /\ \/ pc = "utterance" /\ "transcribe" \in iter'.did
       \/ pc = "tts_check" /\ "tts_transcribe" \in iter'.did
    /\ Peak(audio_chunks) < DEFAULT_MIN_AUDIO_ENERGY

\* C25: a buffer whose peak is below the energy threshold is not sent to the
\* transcription service and yields no text, in the listening branch and in
\* the interrupt check: nothing is heard, forwarded or interrupted.
C25_SoftBufferNeverTranscribed ==
    [][TranscribesSoftBuffer =>
          /\ "whisper" \notin iter'.did
          /\ iter'.text = <<>>
          /\ iter'.heard = <<>>
          /\ iter'.did \cap {"interrupt", "skip", "transition"} = {}
          /\ iter'.injected = iter.injected]_vars

\* C25: an utterance of speech with a peak of 800 ended while the loop
\* listened, and the service was not called.
C25_SoftUtteranceGated ==
    /\ "transcribe" \in iter.did
    /\ "whisper" \notin iter.did
    /\ pc = "head"

\* C25: the interrupt check of a playback had a buffer of soft speech, and
\* the service was not called.
C25_SoftInterruptCheckGated ==
    /\ "tts_transcribe" \in iter.did
    /\ "whisper" \notin iter.did

\* C25: a buffer with one sample at the threshold is sent to the service.
C25_ThresholdBufferTranscribed ==
    /\ "whisper" \in iter.did
    /\ iter.heard # <<>>

\* ------------------------------------------------------------------------
\* C26
\* ------------------------------------------------------------------------

\* An utterance was cleaned: the utterance and what was made of it.
Cleaned == "clean" \in iter.did
CleanIn == iter.text
CleanOut == iter.injected[1]

\* The letters and digits of a text, in lower case.
Letters(s) == Filter(Lower(s), IsWordChar)

\* The least offset at which needle occurs in hay.
FirstAt(hay, needle) ==
    CHOOSE i \in 0..Len(hay) :
        /\ OccursAt(hay, needle, i)
        /\ \A j \in 0..(i - 1) : ~OccursAt(hay, needle, j)

\* The letters from the first occurrence of the wake word the cleaning
\* cuts at: one that occurs in the letters, no longer wake word occurring
\* and none of the same length that comes before it in the list; all the
\* letters when no wake word occurs.
CutAtWake(letters, words) ==
    LET occurs == {k \in 1..Len(words) : Contains(letters, Letters(words[k]))}
        found == {k \in occurs :
                    \A j \in occurs :
                       \/ Len(words[j]) < Len(words[k])
                       \/ Len(words[j]) = Len(words[k]) /\ j >= k}
    IN  IF found = {} THEN letters
        ELSE From(letters, FirstAt(letters, Letters(words[CHOOSE k \in found : TRUE])))

\* The letters up to the end of the leftmost stop phrase, the first of the
\* list when two start there; all the letters when none occurs.
CutAtStop(letters, phrases) ==
    LET at == [j \in 0..Len(letters) |->
                 {k \in 1..Len(phrases) : OccursAt(letters, Letters(phrases[k]), j)}]
        starts == {j \in 0..Len(letters) : at[j] # {}}
    IN  IF starts = {} THEN letters
        ELSE LET first == CHOOSE j \in starts : \A i \in starts : j <= i
                 k == CHOOSE k \in at[first] : \A h \in at[first] : k <= h
             IN  Upto(letters, first + Len(Letters(phrases[k])))

\* The letters of the command that is to be made of an utterance.
ExpectedLetters(text) ==
    CutAtStop(CutAtWake(Letters(StripSoundTags(text)), get_wake_words), get_stop_phrases)

\* The utterance of the claim and what cleaning is to make of it.
CLAIMED_UTTERANCE ==
    <<"u","h"," ","[","m","u","s","i","c","]"," ","h","e","y"," ","s","a","m","a","n","t","h","a"," ","t","u","r","n"," ","o","n"," ","d","a","r","k"," ","m","o","d","e"," ","t","h","a","t","'","s"," ","a","l","l">>
CLAIMED_COMMAND ==
    <<"h","e","y"," ","s","a","m","a","n","t","h","a"," ","t","u","r","n"," ","o","n"," ","d","a","r","k"," ","m","o","d","e"," ","t","h","a","t","'","s"," ","a","l","l">>

\* C26: the cleaned command has no annotation left, starts at the first
\* occurrence of the wake word found when the wake words are tried longest
\* first, ends with the first stop phrase after it, has single spaces and
\* none at its ends, and is otherwise the utterance as it was; the
\* utterance of the claim yields exactly the command of the claim, whether
\* it is sanitized first or not.
C26_CleanCommandCutsAndCollapses ==
    Cleaned =>
        /\ Range(CleanOut) \cap {"[", "]", "(", ")", NOTE, TAB, NEWLINE} = {}
        /\ CleanOut = Strip(CleanOut)
        /\ \A i \in 1..(Len(CleanOut) - 1) : ~(CleanOut[i] = " " /\ CleanOut[i + 1] = " ")
        /\ Letters(CleanOut) = ExpectedLetters(CleanIn)
        /\ Contains(CollapseSpaces(StripSoundTags(CleanIn)), CleanOut)
        /\ Letters(iter.heard) = Letters(CleanOut)
        /\ CleanIn = CLAIMED_UTTERANCE =>
              CleanOut = CLAIMED_COMMAND /\ iter.heard = CLAIMED_COMMAND

\* C26: the utterance of the claim was cleaned.
C26_ClaimedUtteranceCleaned ==
    /\ Cleaned
    /\ CleanIn = CLAIMED_UTTERANCE
    /\ CleanOut = CLAIMED_COMMAND

\* C26: an utterance with words before the wake word, a stop phrase and
\* words after it was cut at both ends.
C26_CutAtBothEnds ==
    /\ Cleaned
    /\ Len(CleanIn) = Len(CLAIMED_UTTERANCE) + Len(<<" ","t","h","a","n","k","s">>)
    /\ CleanOut = CLAIMED_COMMAND

\* ------------------------------------------------------------------------
\* C27
\* ------------------------------------------------------------------------

\* A playback task launched before the current one takes a step while the
\* current one is still playing.
OlderTaskExits ==
    /\ Len(tasks) >= 2
    /\ Len(tasks') = Len(tasks)
    /\ Playing(Current)
    /\ tasks'[Current] = tasks[Current]
    /\ \E k \in 1..(Len(tasks) - 1) : tasks'[k] # tasks[k]

\* C27: the steps by which a cancelled playback task ends, taken after the
\* loop has launched the next text, leave the playing flag, the start time
\* and the cancellation flag of the newer playback as they are.
C27_ExitLeavesNewerPlaybackAlone ==
    [][OlderTaskExits =>
          /\ tts_playing' = tts_playing
          /\ tts_start_time' = tts_start_time
          /\ tts_interrupt' = tts_interrupt]_vars

\* C27: the loop holds no launched text back while a newer playback is
\* still playing: it dequeues the next text only when no playback plays.
C27_NoDequeueWhileNewerPlays ==
    [][Len(launched') > Len(launched) =>
          \A k \in 1..Len(tasks) : ~Playing(k)]_vars

\* C27: the first playback was skipped and ended after the second was
\* launched; its exit cleared the playing flag of the second, which is
\* still in its chunk loop and was not cancelled, and the loop has left the
\* TTS branch.
C27_NewerPlaybackFlagCleared ==
    /\ Len(tasks) = 2
    /\ tasks[1].pc = "done"
    /\ tasks[1].cancel
    /\ tasks[2].pc = "poll"
    /\ ~tasks[2].cancel
    /\ ~tts_playing
    /\ tts_start_time = 0
    /\ "tts" \notin iter.did
    /\ pc \in {"utterance", "head"}
    /\ "listen" \in iter.did \/ "cleanup" \in iter.did

\* ------------------------------------------------------------------------
\* C28
\* ------------------------------------------------------------------------

\* The utterance is complete: its audio is about to be transcribed.
Complete == pc = "utterance" /\ ~tts_playing

\* C28: the audio of a complete utterance begins with the frame in which
\* its speech was detected and holds that frame once, in an idle and in an
\* active session and whatever the length of the utterance.
C28_CompleteUtteranceFromOnset ==
    Complete =>
        /\ audio_chunks # <<>>
        /\ audio_chunks[1] = [OnsetFrame EXCEPT !.at = recording_start]
        /\ \A i \in 2..Len(audio_chunks) : audio_chunks[i].amp # OnsetFrame.amp

\* C28: the utterance of an idle session outgrew the rolling window: its
\* audio is the last 500 frames, without the frame of the onset.
C28_OnsetTrimmedWhileIdle ==
    /\ Complete
    /\ ~is_active
    /\ Len(audio_chunks) = InactiveWindow
    /\ \A i \in 1..Len(audio_chunks) : audio_chunks[i].amp # OnsetFrame.amp

\* C28: the parts of the claim that hold: the audio of a complete utterance
\* of an active session, of whatever length, and that of an idle session of
\* up to 500 frames, begins with the onset frame; and once the utterance is
\* handled the accumulator is reset.
C28_FullWhileActiveOrShort ==
    /\ Complete /\ (is_active \/ Len(audio_chunks) < InactiveWindow) =>
          audio_chunks[1] = [OnsetFrame EXCEPT !.at = recording_start]
    /\ pc = "head" /\ "transcribe" \in iter.did =>
          /\ ~speech_detected
          /\ audio_chunks = <<>>
          /\ silence_duration_ms = 0

\* C28: an utterance of more than 500 frames of an active session is
\* complete.
C28_LongUtteranceWhileActive ==
    /\ Complete
    /\ is_active
    /\ Len(audio_chunks) > InactiveWindow

\* ------------------------------------------------------------------------
\* C29
\* ------------------------------------------------------------------------

\* The frame was captured while a playback was audible.
DuringPlayback(f) == f.amp \in {PlaybackFrame.amp, PlaybackPause.amp}

\* The listening branch is about to transcribe its utterance.
TranscribesUtterance == pc = "utterance" /\ ~tts_playing /\ audio_chunks # <<>>

\* C29: the post-TTS cleanup comes between a playback and the frames of the
\* listening branch, so that no frame captured while a playback was in
\* progress is part of an utterance the listening branch transcribes.
C29_NoPlaybackFrameTranscribed ==
    TranscribesUtterance =>
        \A i \in 1..Len(audio_chunks) : ~DuringPlayback(audio_chunks[i])

\* C29: the only playback of the run was cancelled by the loop and is still
\* audible, and the utterance about to be transcribed is made of frames
\* captured during it.
C29_CancelledPlaybackTranscribed ==
    /\ TranscribesUtterance
    /\ Len(tasks) = 1
    /\ tasks[1].cancel
    /\ tasks[1].pc = "fallback"
    /\ \A i \in 1..Len(audio_chunks) : DuringPlayback(audio_chunks[i])

\* C29: the part of the claim that holds: the listening branch consumes a
\* frame only with the playing flag and the completion marker clear, and a
\* set marker is cleared by the post-TTS cleanup alone.
C29_ListensWithMarkerClear ==
    [][/\ "listen" \in iter'.did /\ "listen" \notin iter.did =>
              ~tts_playing /\ last_tts_time = 0
       /\ last_tts_time > 0 /\ last_tts_time' = 0 => "cleanup" \in iter'.did]_vars

\* ------------------------------------------------------------------------
\* C30
\* ------------------------------------------------------------------------

\* The timeout check returns an active session to idle.
TimeoutFires == pc = "branch" /\ is_active /\ ~is_active'

\* The steps that refresh the activity timer: an accepted utterance that
\* activates the session or is forwarded, and the end of the iteration that
\* recognised an interrupt or a skip.
Activates == pc = "utterance" /\ pc' # pc /\ is_active' /\ iter'.heard # <<>>

InterruptHandled == pc = "tts_sleep" /\ pc' # pc /\ is_active

\* The timeout fires after more than 1800 s without activity, with no
\* playback in progress or awaiting its cleanup, and more than 1800 s after
\* the end of every playback.
AfterSilence ==
    /\ now - last_speech_time > silence_timeout
    /\ ~tts_playing
    /\ last_tts_time = 0
    /\ \A k \in 1..Len(tasks) :
          ~Playing(k) /\ now - tasks[k].ended > silence_timeout

\* C30: a timeout returns an active session to idle only when more than
\* 1800 s have passed since the activation, the last forwarded utterance,
\* the last recognised interrupt or skip and the end of the last playback
\* (each of which refreshes the activity timer, which never goes back),
\* never during a playback or before the cleanup that follows it, and the
\* timeout chime is then played once.
C30_TimeoutAfterSilenceWithChime ==
    [][/\ TimeoutFires =>
             AfterSilence /\ iter'.sounds = Append(iter.sounds, "timeout")
       /\ Activates => last_speech_time' = now
       /\ InterruptHandled => last_speech_time' = now
       /\ last_speech_time' >= last_speech_time]_vars

\* C30: the timeout has fired and play_sound raised: the session is idle
\* and no chime was played in the iteration.
C30_TimedOutWithoutChime ==
    /\ ~is_active
    /\ pc = "head"
    /\ {"timeout_check", "exception"} \subseteq iter.did
    /\ iter.sounds = <<>>

\* C30: the parts of the claim that hold: the timeout fires after more than
\* 1800 s of silence only, never during a playback or before its cleanup;
\* activation and forwarding refresh the timer, and so does an interrupt
\* or a skip whose chime is played.
C30_TimeoutAfterSilence ==
    [][/\ TimeoutFires => AfterSilence
       /\ Activates => last_speech_time' = now
       /\ InterruptHandled /\ "exception" \notin iter'.did => last_speech_time' = now
       /\ last_speech_time' >= last_speech_time]_vars

\* C30: the silence timeout passed during a playback, and the cleanup after
\* the playback has refreshed the timer of the active session.
C30_PlaybackOutlastsTimeout ==
    /\ is_active
    /\ "cleanup" \in iter.did
    /\ last_speech_time = now
    /\ now > StartTime + silence_timeout

\* ------------------------------------------------------------------------
\* C31
\* ------------------------------------------------------------------------

\* The loop takes from the queue a frame on which the detector raises, in
\* the listening branch and in the TTS branch.
BadFrameListened ==
    /\ pc = "branch" /\ pc' # pc
    /\ ~tts_playing /\ last_tts_time = 0
    /\ audio_queue # <<>> /\ Head(audio_queue).vad = "bad"

BadFrameInPlayback ==
    /\ pc = "branch" /\ pc' # pc
    /\ tts_playing
    /\ audio_queue # <<>> /\ Head(audio_queue).vad = "bad"

\* C31: an exception of the detector is caught in the iteration.  In the
\* listening branch its frame counts as speech: it starts or continues the
\* recording, joins the buffer and resets the silence counter.  In the TTS
\* branch its frame counts as silence and stays out of the interrupt-check
\* buffer, so the buffer that is transcribed holds no such frame.
C31_DetectorFailureByBranch ==
    [][/\ BadFrameListened =>
             /\ "exception" \notin iter'.did
             /\ speech_detected'
             /\ silence_duration_ms' = 0
             /\ audio_chunks' # <<>>
             /\ audio_chunks'[Len(audio_chunks')] = Head(audio_queue)
             /\ pc' = "head"
       /\ BadFrameInPlayback =>
             /\ "exception" \notin iter'.did
             /\ audio_chunks' = audio_chunks
       /\ pc' = "tts_check" =>
             \A i \in 1..Len(audio_chunks') : audio_chunks'[i].vad = "speech"]_vars

\* C31: the detector raised on a frame of a recording that had counted
\* silence: the frame joined the recording and the silence counter is back
\* to zero.
C31_FailureContinuesRecording ==
    /\ pc = "head"
    /\ "listen" \in iter.did
    /\ speech_detected
    /\ silence_duration_ms = 0
    /\ Len(audio_chunks) >= 3
    /\ audio_chunks[Len(audio_chunks)].vad = "bad"
    /\ audio_chunks[Len(audio_chunks) - 1].vad = "quiet"

\* C31: the detector raises on the frame the TTS branch is about to take,
\* in a playback old enough for the interrupt check whose buffer is one
\* frame short of it.
C31_FailureDuringPlayback ==
    /\ tts_playing
    /\ pc = "branch"
    /\ tts_start_time > 0 /\ now - tts_start_time >= TTS_GRACE
    /\ (Len(audio_chunks) + 1) * VAD_CHUNK_DURATION_MS = TTS_CHECK_MIN_MS
    /\ audio_queue # <<>> /\ Head(audio_queue).vad = "bad"

\* ------------------------------------------------------------------------
\* C32
\* ------------------------------------------------------------------------

\* The transcription service was called and gave no text, for the utterance
\* of the listening branch and for the interrupt-check buffer.
ListenFailed ==
    /\ pc = "utterance" /\ pc' # pc
    /\ "whisper" \in iter'.did
    /\ iter'.text = <<>>

TtsCheckFailed ==
    /\ pc = "tts_check" /\ pc' # pc
    /\ "whisper" \in iter'.did
    /\ iter'.heard = <<>>

\* C32: a failed transcription counts as nothing heard.  In the listening
\* branch the accumulator is reset and the session, the activity timer, the
\* chimes, the injections and the pending-speech queue are left as they
\* were; in the TTS branch no cancellation is requested, the playing flag
\* and the queue are left as they were and the interrupt-check buffer is
\* emptied; in both the iteration ends without an exception.
C32_FailedTranscriptionHearsNothing ==
    [][/\ ListenFailed =>
             /\ is_active' = is_active
             /\ last_speech_time' = last_speech_time
             /\ iter'.injected = iter.injected
             /\ iter'.sounds = iter.sounds
             /\ tts_text_queue' = tts_text_queue
             /\ ~speech_detected'
             /\ audio_chunks' = <<>>
             /\ silence_duration_ms' = 0
             /\ "exception" \notin iter'.did
             /\ pc' = "head"
       /\ TtsCheckFailed =>
             /\ {"interrupt", "skip"} \cap iter'.did = {}
             /\ tts_interrupt' = tts_interrupt
             /\ tts_playing' = tts_playing
             /\ tts_text_queue' = tts_text_queue
             /\ audio_chunks' = <<>>
             /\ "exception" \notin iter'.did
             /\ pc' = "head"]_vars

\* C32: the transcription of an utterance of an active session failed: the
\* session is still active and the accumulator is reset.
C32_FailedWhileActive ==
    /\ pc = "head"
    /\ {"transcribe", "whisper"} \subseteq iter.did
    /\ iter.text = <<>>
    /\ is_active
    /\ audio_chunks = <<>>

\* C32: the transcription of the interrupt-check buffer failed: the
\* playback goes on and the buffer is empty.
C32_FailedDuringPlayback ==
    /\ pc = "head"
    /\ {"tts_transcribe", "whisper"} \subseteq iter.did
    /\ iter.heard = <<>>
    /\ tts_playing
    /\ audio_chunks = <<>>

\* ------------------------------------------------------------------------
\* C33
\* ------------------------------------------------------------------------

\* The playback threads whose synthesis failed, and those that have set
\* their completion event.
FailedTasks ==
    {k \in 1..Len(tasks) : tasks[k].kind = "thread" /\ ~tasks[k].ok}

ExitedTasks == {k \in 1..Len(tasks) : tasks[k].pc = "done"}

\* The ids of the texts pending in the queue.
PendingIds == {tts_text_queue[i].id : i \in 1..Len(tts_text_queue)}

\* C33: when the synthesis of a queued text fails, its playback task still
\* clears the playing flag and sets its completion event; the text is not
\* launched a second time and does not return to the queue; the loop
\* thread stays alive; and a text pending behind it is launched.
C33_FailedSynthesisGoesOn ==
    /\ [](\A k \in FailedTasks :
             /\ tasks[k].id \notin PendingIds
             /\ Cardinality({i \in 1..Len(launched) : launched[i] = tasks[k].id}) = 1
             /\ ThreadAlive)
    /\ []((\A k \in 1..Len(tasks) : tasks[k].pc \in {"fin_event", "done"}) => ~tts_playing)
    /\ \A k \in 1..2 : (k \in FailedTasks) ~> (k \in ExitedTasks)
    /\ \A e \in 1..2 :
          (FailedTasks # {} /\ e \in PendingIds) ~> (e \in LaunchedIds)

\* C33: the synthesis of the first text failed, its task cleared the
\* playing flag and set its event, and the second text is being played.
C33_SecondPlayedAfterFailure ==
    /\ Len(tasks) = 2
    /\ 1 \in FailedTasks
    /\ tasks[1].pc = "done"
    /\ tasks[2].pc = "poll"
    /\ launched = <<1, 2>>
    /\ tts_playing

\* ------------------------------------------------------------------------
\* C34
\* ------------------------------------------------------------------------

\* An iteration of the listening branch takes a frame while the session is
\* idle, and no recording is under way once it has.
ListensIdle ==
    /\ pc = "branch" /\ pc' # pc
    /\ "listen" \in iter'.did
    /\ ~is_active'
    /\ ~speech_detected'

\* C34: while the session is idle and no speech onset was detected, every
\* iteration of the listening branch that takes a frame leaves in the
\* accumulator the most recent 500 frames at most, the frame it took last,
\* and has discarded the older ones.
C34_IdleWindowBounded ==
    [][ListensIdle =>
          /\ Len(audio_chunks') <= 500
          /\ audio_chunks' = LastN(Append(audio_chunks, Head(audio_queue)), 500)]_vars

\* C34: the window is full and the oldest frame of the wait has left it.
C34_WindowFullOldestDiscarded ==
    /\ ~is_active
    /\ ~speech_detected
    /\ pc = "head"
    /\ "listen" \in iter.did
    /\ Len(audio_chunks) = 500
    /\ audio_chunks[1].amp # 0
    /\ audio_chunks[500].amp = (audio_chunks[499].amp + 1) % QuietCycle

\* C34: the session timed out with more than 500 frames of silence in the
\* accumulator, and the iteration of the timeout cut them to 500.
C34_CutAfterTimeout ==
    /\ ~is_active
    /\ pc = "head"
    /\ {"timeout_check", "listen"} \subseteq iter.did
    /\ iter.sounds = <<"timeout">>
    /\ Len(audio_chunks) = 500

\* ------------------------------------------------------------------------
\* C35
\* ------------------------------------------------------------------------

\* The buffer that is transcribed in this step, in the listening branch or
\* in the interrupt check, holds a sample whose magnitude reaches the
\* energy threshold.
TranscribesLoudBuffer ==
    /\ \/ pc = "utterance" /\ "transcribe" \in iter'.did
       \/ pc = "tts_check" /\ "tts_transcribe" \in iter'.did
    /\ Peak(audio_chunks) >= DEFAULT_MIN_AUDIO_ENERGY

\* C35: the energy gate decides on the true peak magnitude of the buffer:
\* a buffer with a sample whose magnitude is at least the threshold, the
\* sample -32768 included, is sent to the transcription service.
C35_LoudBufferTranscribed ==
    [][TranscribesLoudBuffer => "whisper" \in iter'.did]_vars

\* C35: the utterance that is about to be transcribed has the sample -32768
\* in its onset frame, and the energy computed for it is below the
\* threshold.
C35_ExtremeUtteranceGated ==
    /\ pc = "utterance"
    /\ ~tts_playing
    /\ audio_chunks # <<>>
    /\ audio_chunks[1].amp = INT16_MIN
    /\ Peak(audio_chunks) = 32768
    /\ max_energy(audio_chunks) < DEFAULT_MIN_AUDIO_ENERGY

\* C35: the same for the interrupt-check buffer of a playback.
C35_ExtremeInterruptCheckGated ==
    /\ pc = "tts_check"
    /\ audio_chunks[1].amp = INT16_MIN
    /\ max_energy(audio_chunks) < DEFAULT_MIN_AUDIO_ENERGY

\* C35: the utterance with the sample -32768 was not sent to the service:
\* nothing was heard and the session stays idle.
C35_ExtremeUtteranceUnheard ==
    /\ pc = "head"
    /\ "transcribe" \in iter.did
    /\ "whisper" \notin iter.did
    /\ iter.text = <<>>
    /\ ~is_active

\* ------------------------------------------------------------------------
\* C36
\* ------------------------------------------------------------------------

\* The ids of the texts the speak calls of the run append, and of those
\* among them that are not empty.
ScriptIds == 1..Len(script)

SpokenIds == {e \in ScriptIds : script[e] # <<>>}

LoopThreadsAlive == (IF ThreadAlive THEN 1 ELSE 0) + unreferenced

\* C37: whatever the order of the start and stop calls, of calls that
\* overlap at their awaits and of stops whose join times out, at most one
\* loop thread is alive, and the stop flag is not reset to false while a
\* loop thread that was asked to stop is alive.
C37_OneLoopAndStopFlagKept ==
    [][/\ LoopThreadsAlive' <= 1
       /\ (thread_stop_flag /\ ~thread_stop_flag') => LoopThreadsAlive = 0]_vars

\* C37: two start calls overlapped and both succeeded: the loop thread of
\* the first is alive, referred to no longer, beside the loop thread of the
\* second.
C37_TwoLoopThreadsAlive ==
    /\ unreferenced = 1
    /\ ThreadAlive
    /\ pc = "branch"
    /\ result = "started"
    /\ start = "none" /\ start2 = "none" /\ tool = "idle"
    /\ ~thread_stop_flag

\* C37: a loop thread asked to stop, alive after the stop call returned,
\* whose stop flag a start call suspended since before the stop has reset.
C37_StopFlagResetUnderStoppedLoop ==
    /\ unreferenced = 1
    /\ result = "stopped"
    /\ ~thread_stop_flag
    /\ pc = "open"
    /\ tool = "start_wait"
    /\ active_file = "absent"

\* The loop takes a frame from the stream's queue.
TakesFrame == pc = "branch" /\ audio_queue # <<>> /\ pc' # pc

\* C38: without a detector the loop never calls the transcription service.
\* When it listens, every frame counts as speech: a recording is under way
\* after each frame, its silence counter stays at 0, no utterance completes
\* and the session is never activated.  During a playback no frame is
\* appended to the interrupt-check buffer, and no check made.
C38_NoDetectorNoTranscription ==
    /\ [](pc \notin {"utterance", "tts_check", "tts_sleep"})
    /\ [](~is_active /\ silence_duration_ms = 0)
    /\ [](tts_playing => audio_chunks = <<>>)
    /\ [][(TakesFrame /\ ~tts_playing /\ last_tts_time = 0)
             => /\ speech_detected'
                /\ audio_chunks' # <<>>
                /\ audio_chunks'[Len(audio_chunks')] = Head(audio_queue)]_vars
    /\ [][(TakesFrame /\ tts_playing) => audio_chunks' = <<>>]_vars

\* C38: the user spoke and has been silent for more than the second that
\* ends an utterance, more than a second after the recording began; the
\* recording goes on.
C38_SilenceNeverCounted ==
    /\ pc = "head"
    /\ speech_detected
    /\ Len(audio_chunks) = MaxChunks
    /\ audio_chunks[1].amp = LOUD
    /\ \A i \in 4..MaxChunks : audio_chunks[i].amp = 0
    /\ (MaxChunks - 3) * VAD_CHUNK_DURATION_MS >= SILENCE_THRESHOLD_MS
    /\ now >= recording_start + INITIAL_SILENCE_GRACE_PERIOD
    /\ silence_duration_ms = 0

\* C38: a frame the user speaks in is about to be taken during a playback
\* that began two seconds ago or more.
C38_SpokenOverPlayback ==
    /\ pc = "branch"
    /\ tts_playing
    /\ tts_start_time > 0
    /\ now >= tts_start_time + TTS_GRACE
    /\ audio_queue = <<[UndetectedSpeech EXCEPT !.at = now]>>
    /\ audio_chunks = <<>>

\* The cancellations requested since task k was launched: by a stop call
\* made while k had not returned, or by an interrupt or a skip recognised
\* during the playback of k or of a later task.
CancelledSince(k) ==
    \/ k \in at_stop.playing
    \/ \E j \in k..Len(tasks) : tasks[j].cancel

\* The streaming playback of task k is about to poll the flag.
Polling(k) == tasks[k].pc = "poll"

\* C39: a cancellation flag that was set while no playback ran cancels no
\* later playback.  A playback begins with the flag cleared, the flag is
\* cleared when a streaming playback exits, and a playback that finds the
\* flag set when it polls had its cancellation requested since its launch.
C39_StaleFlagCancelsNothing ==
    /\ [](\A k \in 1..Len(tasks) : (Polling(k) /\ tts_interrupt) => CancelledSince(k))
    /\ [][\A k \in 1..Len(tasks) :
             (k <= Len(tasks') /\ tasks[k].pc \in {"reset", "close", "close_fallback"}
                /\ tasks'[k].pc # tasks[k].pc)
             => ~tts_interrupt']_vars

\* C39: a skip was recognised when the first playback had ended, so that
\* the flag stayed set with nothing playing; the second text has been
\* launched since and its playback streams with the flag cleared.
C39_LateSkipThenPlayback ==
    /\ Len(tasks) = 2
    /\ tasks[1].pc = "done"
    /\ ~tasks[1].cancel
    /\ ~tasks[2].cancel
    /\ is_skip_only
    /\ ~thread_stop_flag
    /\ Polling(2)
    /\ ~tts_interrupt

\* C39: a stop call was made when nothing played, and set the flag; the
\* loop has exited, and the speak call made since plays its text itself,
\* with the flag cleared.
C39_StopThenPlayback ==
    /\ thread_stop_flag
    /\ at_stop.playing = {}
    /\ pc = "exited"
    /\ tasks # <<>>
    /\ tasks[Len(tasks)].kind = "direct"
    /\ Polling(Len(tasks))
    /\ ~tts_interrupt

\* C39: the flag is set and nothing plays: the playback had ended when the
\* interrupt was recognised.
C39_FlagLeftSet ==
    /\ tts_interrupt
    /\ Len(tasks) = 1
    /\ tasks[1].pc = "done"
    /\ ~tasks[1].cancel
    /\ pc = "tts_sleep"

\* The loop leaves the handling of a completed utterance.
UtteranceHandled == pc = "utterance" /\ pc' # pc

\* C40: a completed utterance is transcribed and acted upon once, an
\* exception raised in its handling or not: when the loop leaves the
\* handling, the accumulator holds the utterance no longer, so that the
\* next frame cannot complete it again.
C40_UtteranceHandledOnce ==
    [][UtteranceHandled
          => /\ ~speech_detected'
             /\ audio_chunks' = <<>>
             /\ silence_duration_ms' = 0]_vars

\* C40: the handling of an utterance without an exception empties the
\* accumulator.
C40_HandledWithoutExceptionOnce ==
    [][(UtteranceHandled /\ "exception" \notin iter'.did)
          => /\ ~speech_detected'
             /\ audio_chunks' = <<>>
             /\ silence_duration_ms' = 0]_vars

\* C40: an utterance is handled again.  It activated the session, or was
\* forwarded to it, after its recording began; a call of its handling
\* raised, the recording went on, and the next silent frame has completed
\* it once more.
C40_WakeWordHandledAgain ==
    /\ pc = "utterance"
    /\ ~tts_playing
    /\ speech_detected
    /\ is_active
    /\ last_speech_time > recording_start
    /\ silence_duration_ms > SILENCE_THRESHOLD_MS
    /\ audio_chunks # <<>>

====
